---- MODULE Spec2Model ----
(***************************************************************************)
(* Model of the airdrop-scanner scan orchestration and detection engine:   *)
(* app/services/scanner.py, app/services/rpc.py and app/detectors/*.py.    *)
(*                                                                         *)
(* Strings that the code parses or compares (block markers, hex block      *)
(* numbers) are sequences of character codes: codes 0..9 are the decimal   *)
(* digits, 10..15 the hex digits a..f, DOT is a non-digit character.       *)
(***************************************************************************)
EXTENDS Integers, Sequences, FiniteSets, TLC

\* ------------------------------------------------------------------------
\* Python values
\* ------------------------------------------------------------------------

\* Python None where a str is expected (distinct from the empty string <<>>)
None == <<-1>>

\* Python None where an int is expected
NoneInt == -1

\* a character that is not a digit
DOT == 46

\* what d.get(key) gives for a key that the dict d does not have
Missing == "missing"

\* truthiness of an optional string: None and "" are falsy
Truthy(s) == s # None /\ s # <<>>

Min(a, b) == IF a < b THEN a ELSE b

Max(a, b) == IF a > b THEN a ELSE b

RECURSIVE DigitsValue(_, _)
\* value of a digit string in the given base, most significant digit first
DigitsValue(s, base) ==
    IF Len(s) = 0 THEN 0
    ELSE DigitsValue(SubSeq(s, 1, Len(s) - 1), base) * base + s[Len(s)]

RECURSIVE str(_)
\* Python str(n) for n >= 0
str(n) == IF n < 10 THEN <<n>> ELSE Append(str(n \div 10), n % 10)

RECURSIVE hex(_)
\* Python hex(n) for n >= 0, without the "0x" prefix
hex(n) == IF n < 16 THEN <<n>> ELSE Append(hex(n \div 16), n % 16)

\* Python int(s, 16) on a hex string produced by a node
int16(s) == DigitsValue(s, 16)

\* Python int(s) on a string known to be decimal digits
int10(s) == DigitsValue(s, 10)

\* _safe_int: int(val), or None when val is None or does not parse
_safe_int(val) ==
    IF val = None THEN NoneInt
    ELSE IF Len(val) > 0 /\ \A k \in 1..Len(val) : val[k] \in 0..9
         THEN DigitsValue(val, 10)
         ELSE NoneInt

\* ------------------------------------------------------------------------
\* DetectionResult and _merge_result
\* ------------------------------------------------------------------------

\* DetectionResult(): the dataclass defaults
DetectionResult ==
    [interacted |-> FALSE, interaction_count |-> 0, signal_types |-> <<>>,
     first_seen |-> None, last_seen |-> None, rpc_calls_used |-> 0]

\* a plausible slip: the source's markers overwrite the target's without
\* being compared
_merge_result_Overwrite(target, source) ==
    IF source.interacted THEN
        [target EXCEPT
           !.interacted = TRUE,
           !.interaction_count = @ + source.interaction_count,
           !.signal_types = @ \o source.signal_types,
           !.first_seen =
               IF Truthy(source.first_seen)
                  /\ _safe_int(source.first_seen) # NoneInt
               THEN source.first_seen ELSE @,
           !.last_seen =
               IF Truthy(source.last_seen)
                  /\ _safe_int(source.last_seen) # NoneInt
               THEN source.last_seen ELSE @]
    ELSE target

\* a plausible slip: the source's count is not added to the target's
_merge_result_KeepCount(target, source) ==
    IF source.interacted THEN
        LET src_first == _safe_int(source.first_seen)
            tgt_first == _safe_int(target.first_seen)
            src_last  == _safe_int(source.last_seen)
            tgt_last  == _safe_int(target.last_seen)
        IN [target EXCEPT
              !.interacted = TRUE,
              !.signal_types = @ \o source.signal_types,
              !.first_seen =
                  IF Truthy(source.first_seen) /\ src_first # NoneInt
                     /\ (tgt_first = NoneInt \/ src_first < tgt_first)
                  THEN source.first_seen ELSE @,
              !.last_seen =
                  IF Truthy(source.last_seen) /\ src_last # NoneInt
                     /\ (tgt_last = NoneInt \/ src_last > tgt_last)
                  THEN source.last_seen ELSE @]
    ELSE target

\* a plausible slip: the source's interacted flag is not looked at
_merge_result_Always(target, source) ==
    LET src_first == _safe_int(source.first_seen)
        tgt_first == _safe_int(target.first_seen)
        src_last  == _safe_int(source.last_seen)
        tgt_last  == _safe_int(target.last_seen)
    IN [target EXCEPT
          !.interaction_count = @ + source.interaction_count,
          !.signal_types = @ \o source.signal_types,
          !.first_seen =
              IF Truthy(source.first_seen) /\ src_first # NoneInt
                 /\ (tgt_first = NoneInt \/ src_first < tgt_first)
              THEN source.first_seen ELSE @,
          !.last_seen =
              IF Truthy(source.last_seen) /\ src_last # NoneInt
                 /\ (tgt_last = NoneInt \/ src_last > tgt_last)
              THEN source.last_seen ELSE @]

\* a plausible slip: the interacted flag of the target is not raised
_merge_result_NoFlag(target, source) ==
    IF source.interacted THEN
        LET src_first == _safe_int(source.first_seen)
            tgt_first == _safe_int(target.first_seen)
            src_last  == _safe_int(source.last_seen)
            tgt_last  == _safe_int(target.last_seen)
        IN [target EXCEPT
              !.interaction_count = @ + source.interaction_count,
              !.signal_types = @ \o source.signal_types,
              !.first_seen =
                  IF Truthy(source.first_seen) /\ src_first # NoneInt
                     /\ (tgt_first = NoneInt \/ src_first < tgt_first)
                  THEN source.first_seen ELSE @,
              !.last_seen =
                  IF Truthy(source.last_seen) /\ src_last # NoneInt
                     /\ (tgt_last = NoneInt \/ src_last > tgt_last)
                  THEN source.last_seen ELSE @]
    ELSE target

RECURSIVE StrLess(_, _)
\* Python's < on two strings (lexicographic on character codes)
StrLess(a, b) ==
    IF Len(b) = 0 THEN FALSE
    ELSE IF Len(a) = 0 THEN TRUE
    ELSE IF a[1] # b[1] THEN a[1] < b[1]
    ELSE StrLess(Tail(a), Tail(b))

\* a plausible slip: the markers are compared as strings, not as integers
_merge_result_StrCmp(target, source) ==
    IF source.interacted THEN
        LET src_first == _safe_int(source.first_seen)
            tgt_first == _safe_int(target.first_seen)
            src_last  == _safe_int(source.last_seen)
            tgt_last  == _safe_int(target.last_seen)
        IN [target EXCEPT
              !.interacted = TRUE,
              !.interaction_count = @ + source.interaction_count,
              !.signal_types = @ \o source.signal_types,
              !.first_seen =
                  IF Truthy(source.first_seen) /\ src_first # NoneInt
                     /\ (tgt_first = NoneInt
                         \/ StrLess(source.first_seen, target.first_seen))
                  THEN source.first_seen ELSE @,
              !.last_seen =
                  IF Truthy(source.last_seen) /\ src_last # NoneInt
                     /\ (tgt_last = NoneInt
                         \/ StrLess(target.last_seen, source.last_seen))
                  THEN source.last_seen ELSE @]
    ELSE target

\* _merge_result(target, source): the target after the call
\* a slip: a signal type the target already has is not appended again
_merge_result_Deduplicated(target, source) ==
    IF source.interacted THEN
        LET src_first == _safe_int(source.first_seen)
            tgt_first == _safe_int(target.first_seen)
            src_last  == _safe_int(source.last_seen)
            tgt_last  == _safe_int(target.last_seen)
        IN [target EXCEPT
              !.interacted = TRUE,
              !.interaction_count = @ + source.interaction_count,
              !.signal_types =
                  @ \o SelectSeq(source.signal_types,
                          LAMBDA t : \A k \in 1..Len(target.signal_types) :
                                        target.signal_types[k] # t),
              !.first_seen =
                  IF Truthy(source.first_seen) /\ src_first # NoneInt
                     /\ (tgt_first = NoneInt \/ src_first < tgt_first)
                  THEN source.first_seen ELSE @,
              !.last_seen =
                  IF Truthy(source.last_seen) /\ src_last # NoneInt
                     /\ (tgt_last = NoneInt \/ src_last > tgt_last)
                  THEN source.last_seen ELSE @]
    ELSE target

\* _merge_result(target, source): target after the call
_merge_result(target, source) ==
    IF source.interacted THEN
        LET src_first == _safe_int(source.first_seen)
            tgt_first == _safe_int(target.first_seen)
            src_last  == _safe_int(source.last_seen)
            tgt_last  == _safe_int(target.last_seen)
        IN [target EXCEPT
              !.interacted = TRUE,
              !.interaction_count = @ + source.interaction_count,
              !.signal_types = @ \o source.signal_types,
              !.first_seen =
                  IF Truthy(source.first_seen) /\ src_first # NoneInt
                     /\ (tgt_first = NoneInt \/ src_first < tgt_first)
                  THEN source.first_seen ELSE @,
              !.last_seen =
                  IF Truthy(source.last_seen) /\ src_last # NoneInt
                     /\ (tgt_last = NoneInt \/ src_last > tgt_last)
                  THEN source.last_seen ELSE @]
    ELSE target

\* ------------------------------------------------------------------------
\* Settings (app/config.py), scaled down; every one can be overridden from
\* the environment
\* ------------------------------------------------------------------------

\* settings.max_rpc_calls_per_scan of a run is one of these two
TightRpcLimit == 2

LooseRpcLimit == 6

RpcLimitChoices == {TightRpcLimit, LooseRpcLimit}

max_scan_seconds == 1

max_log_block_range == 8

min_window_days == 1

max_window_days == 2

base_block_time_seconds == 7200

cache_ttl_seconds == 2

default_window_days == 2

max_scan_block_range == 0

\* the literals of the code
SecondsPerDay == 86400

TokenedCap == 3

SearchIterations == 20

SearchWidth == 10

\* int(time.time()) when the window is computed
NowTs == 1900000000

\* ------------------------------------------------------------------------
\* The chain as the node reports it
\* ------------------------------------------------------------------------

\* answers of eth_blockNumber
LatestBlocks == {5, 30}

\* timestamps a node answers for a block: 0 for an unknown block (the
\* "0x0" default of get_block_timestamp), or a recent time
TsChoices == {0, NowTs - 3600}

\* a log as eth_getLogs returns it: the block number is a hex string; the
\* model has one transaction per block
Log(b) == [blockNumber |-> hex(b), transactionHash |-> b]

\* the answers of a successful eth_getLogs over [s, e]
LogChoices(s, e) == { <<>>, <<Log(e)>>, <<Log(s), Log(e)>> }

\* ------------------------------------------------------------------------
\* The catalog (app/models/protocol.py)
\* ------------------------------------------------------------------------

EventSignatureConfig(t) ==
    [topic0 |-> t, user_address_position |-> "topic1", interaction_type |-> t]

DetectionConfig ==
    [event_signatures |-> <<>>, token_contracts |-> <<>>,
     interaction_type |-> None, instruction_discriminators |-> <<>>,
     sub_detectors |-> <<>>]

ContractEntry(addr, mode, config) ==
    [address |-> addr, detection_mode |-> mode, detection_config |-> config]

EventContract ==
    ContractEntry("0xe", "event_topic",
        [DetectionConfig EXCEPT !.event_signatures =
            <<EventSignatureConfig("swap"), EventSignatureConfig("supply")>>])

EventContractNoSigs == ContractEntry("0xn", "event_topic", DetectionConfig)

TransferContract ==
    ContractEntry("0xt", "transfer_to_contract",
        [DetectionConfig EXCEPT !.token_contracts = <<"0xusdc">>])

TxToContract == ContractEntry("0xc", "tx_to_contract", DetectionConfig)

HybridContract ==
    ContractEntry("0xh", "hybrid",
        [DetectionConfig EXCEPT !.sub_detectors =
            <<Missing, "event_topic", "bogus", "hybrid", "program_id_match",
              "tx_to_contract">>,
          !.event_signatures = <<EventSignatureConfig("stake")>>])

ProgramContract == ContractEntry("Prog0", "program_id_match", DetectionConfig)

Protocol(id, has_token, contracts) ==
    [id |-> id, has_token |-> has_token, contracts |-> contracts]

\* the catalogs an EVM scan is run against
EvmCatalogs ==
    { << Protocol("p1", FALSE, <<EventContract>>),
         Protocol("p2", TRUE, <<TxToContract>>),
         Protocol("p3", FALSE, <<TransferContract>>) >>,
      << Protocol("q1", TRUE, <<HybridContract, TxToContract>>),
         Protocol("q2", FALSE, <<ProgramContract, EventContractNoSigs, TransferContract>>) >>,
      << Protocol("r1", FALSE, <<TxToContract>>) >>,
      << Protocol("w1", FALSE, <<EventContractNoSigs>>),
         Protocol("w2", TRUE, <<ProgramContract>>),
         Protocol("w3", FALSE, <<>>),
         Protocol("w4", TRUE, <<EventContractNoSigs>>),
         Protocol("w5", FALSE, <<ProgramContract>>) >> }

\* [p.id for p in ps]
Ids(ps) == [k \in 1..Len(ps) |-> ps[k].id]

\* ------------------------------------------------------------------------
\* Helpers on lists
\* ------------------------------------------------------------------------

Contains(seq, x) == \E k \in 1..Len(seq) : seq[k] = x

\* [int(log["blockNumber"], 16) for log in logs], as a set
BlockNums(logs) == { int16(logs[k].blockNumber) : k \in 1..Len(logs) }

MinOf(S) == CHOOSE x \in S : \A y \in S : x <= y

MaxOf(S) == CHOOSE x \in S : \A y \in S : x >= y

RECURSIVE DedupByTx(_, _)
\* the logs whose transactionHash was not seen before, in order
DedupByTx(logs, seen_txs) ==
    IF Len(logs) = 0 THEN <<>>
    ELSE IF Head(logs).transactionHash \in seen_txs
         THEN DedupByTx(Tail(logs), seen_txs)
         ELSE <<Head(logs)>> \o
              DedupByTx(Tail(logs), seen_txs \cup {Head(logs).transactionHash})

\* ------------------------------------------------------------------------
\* The EVM detectors (app/detectors/event_topic.py, transfer_to.py, tx_to.py)
\* ------------------------------------------------------------------------

\* a slip: the chunk loop forgets the budget
ChunkLoopCond_NoBudget(chunk_end, from, used, rpc_budget) ==
    chunk_end >= from

\* while chunk_end >= from_block and result.rpc_calls_used < rpc_budget
ChunkLoopCond(chunk_end, from, used, rpc_budget) ==
    chunk_end >= from /\ used < rpc_budget

\* the chunk start without the clip to from_block
ChunkStart_Unclipped(chunk_end, from) == chunk_end - max_log_block_range + 1

\* chunk_start = max(chunk_end - chunk_size + 1, from_block)
ChunkStart(chunk_end, from) == Max(chunk_end - max_log_block_range + 1, from)

\* EventTopicDetector.detect, "if logs:" block: fold one chunk's logs
EventTopicAccumulate(result, logs, interaction_type) ==
    IF Len(logs) = 0 THEN result
    ELSE
        LET min_block == MinOf(BlockNums(logs))
            max_block == MaxOf(BlockNums(logs))
            cur_first == IF Truthy(result.first_seen)
                         THEN int10(result.first_seen) ELSE NoneInt
            cur_last  == IF Truthy(result.last_seen)
                         THEN int10(result.last_seen) ELSE NoneInt
        IN [result EXCEPT
              !.interacted = TRUE,
              !.interaction_count = @ + Len(logs),
              !.signal_types =
                  IF Contains(@, interaction_type) THEN @
                  ELSE Append(@, interaction_type),
              !.first_seen = IF cur_first = NoneInt \/ min_block < cur_first
                             THEN str(min_block) ELSE @,
              !.last_seen = IF cur_last = NoneInt \/ max_block > cur_last
                            THEN str(max_block) ELSE @]

\* TransferToContractDetector.detect, "if logs:" block: fold one token's logs
TransferToAccumulate(result, logs, config) ==
    IF Len(logs) = 0 THEN result
    ELSE
        LET interaction_type == IF Truthy(config.interaction_type)
                                THEN config.interaction_type
                                ELSE "token_transfer"
            min_block == MinOf(BlockNums(logs))
            max_block == MaxOf(BlockNums(logs))
            cur_first == IF Truthy(result.first_seen)
                         THEN int10(result.first_seen) ELSE NoneInt
            cur_last  == IF Truthy(result.last_seen)
                         THEN int10(result.last_seen) ELSE NoneInt
        IN [result EXCEPT
              !.interacted = TRUE,
              !.interaction_count = @ + Len(logs),
              !.signal_types =
                  IF Contains(@, interaction_type) THEN @
                  ELSE Append(@, interaction_type),
              !.first_seen = IF cur_first = NoneInt \/ min_block < cur_first
                             THEN str(min_block) ELSE @,
              !.last_seen = IF cur_last = NoneInt \/ max_block > cur_last
                            THEN str(max_block) ELSE @]

\* TxToContractDetector.detect, after the two queries: deduplicate and fold
TxToFinish(result, logs1, logs2) ==
    LET all_logs == DedupByTx(logs1 \o logs2, {})
    IN IF Len(all_logs) = 0 THEN result
       ELSE [result EXCEPT
               !.interacted = TRUE,
               !.interaction_count = Len(all_logs),
               !.signal_types = Append(@, "contract_interaction"),
               !.first_seen = str(MinOf(BlockNums(all_logs))),
               !.last_seen = str(MaxOf(BlockNums(all_logs)))]

\* DetectionMode(mode_str) succeeds
IsDetectionMode(mode_str) ==
    mode_str \in {"event_topic", "transfer_to_contract", "tx_to_contract",
                  "program_id_match", "hybrid"}

\* _get_evm_detector(mode) is not None
HasEvmDetector(mode) ==
    mode \in {"event_topic", "transfer_to_contract", "tx_to_contract"}

\* ------------------------------------------------------------------------
\* Solana: parsed transactions and ProgramIdMatchDetector
\* (app/detectors/program_id.py)
\* ------------------------------------------------------------------------

max_solana_parse_batch == 2

\* most signatures getSignaturesForAddress answers with
MaxSignatures == 3

Instruction(program, data, inner) ==
    [programId |-> program, data |-> data, innerInstructions |-> inner]

\* parsed transactions as the enhanced API or the raw RPC return them
\* (instruction data is a string of character codes; timestamp 0: no
\* timestamp; an account key is <<"str", key>> for a plain string and
\* <<"dict", pubkey>> for a dict, pubkey being Missing if it has none)
TxSwap ==
    [type |-> "SWAP", timestamp |-> 1800000000,
     instructions |-> <<Instruction("Prog1", <<1, 2, 3>>, <<>>)>>,
     accountData |-> {}, accountKeys |-> {}]

TxInner ==
    [type |-> Missing, timestamp |-> 0,
     instructions |-> <<Instruction("Other", <<>>, <<"Prog2">>)>>,
     accountData |-> {}, accountKeys |-> {}]

TxKeys ==
    [type |-> "TRANSFER", timestamp |-> 1700000000,
     instructions |-> <<Instruction("Prog1", <<9, 9>>, <<>>)>>,
     accountData |-> {"Acct"}, accountKeys |-> {<<"str", "Prog2">>}]

TxPool == {TxSwap, TxInner, TxKeys}

\* data.startswith(d)
StartsWith(data, d) == Len(d) <= Len(data) /\ SubSeq(data, 1, Len(d)) = d

\* key.get("pubkey", key) if isinstance(key, dict) else key, compared
\* with program_id: a dict without pubkey is compared itself and differs
KeyIs(key, program_id) ==
    IF key[1] = "dict" /\ key[2] = Missing THEN FALSE
    ELSE key[2] = program_id

\* a slip: the discriminators filter inner instructions too
_tx_involves_program_InnerFiltered(tx, program_id, discriminators) ==
    \/ \E k \in 1..Len(tx.instructions) :
         LET ix == tx.instructions[k]
         IN /\ \/ discriminators = {}
               \/ \E d \in discriminators : StartsWith(ix.data, d)
            /\ \/ ix.programId = program_id
               \/ \E n \in 1..Len(ix.innerInstructions) :
                    ix.innerInstructions[n] = program_id
    \/ program_id \in tx.accountData
    \/ \E key \in tx.accountKeys : KeyIs(key, program_id)

\* _tx_involves_program(tx, program_id, discriminators)
_tx_involves_program(tx, program_id, discriminators) ==
    \/ \E k \in 1..Len(tx.instructions) :
         LET ix == tx.instructions[k]
         IN \/ /\ ix.programId = program_id
               /\ \/ discriminators = {}
                  \/ \E d \in discriminators : StartsWith(ix.data, d)
            \/ \E n \in 1..Len(ix.innerInstructions) :
                 ix.innerInstructions[n] = program_id
    \/ program_id \in tx.accountData
    \/ \E key \in tx.accountKeys : KeyIs(key, program_id)

RECURSIVE SelectTxs(_, _, _)
\* [tx for tx in parsed_txs if _tx_involves_program(...)]
SelectTxs(txs, program_id, discriminators) ==
    IF Len(txs) = 0 THEN <<>>
    ELSE (IF _tx_involves_program(Head(txs), program_id, discriminators)
          THEN <<Head(txs)>> ELSE <<>>)
         \o SelectTxs(Tail(txs), program_id, discriminators)

RECURSIVE ListOfSet(_)
\* list(a_set): the elements in some order
ListOfSet(S) ==
    IF S = {} THEN <<>>
    ELSE LET x == CHOOSE y \in S : TRUE IN <<x>> \o ListOfSet(S \ {x})

\* a slip: one signal type per matching transaction, duplicates kept
detect_from_parsed_txs_TypesKept(contract, parsed_txs) ==
    LET config == contract.detection_config
        discriminators ==
            { config.instruction_discriminators[k] :
                k \in 1..Len(config.instruction_discriminators) }
        matching_txs == SelectTxs(parsed_txs, contract.address, discriminators)
        timestamps == { matching_txs[k].timestamp :
                          k \in { k \in 1..Len(matching_txs) :
                                    matching_txs[k].timestamp # 0 } }
    IN IF Len(matching_txs) = 0 THEN DetectionResult
       ELSE [DetectionResult EXCEPT
               !.interacted = TRUE,
               !.interaction_count = Len(matching_txs),
               !.signal_types =
                  [k \in 1..Len(matching_txs) |->
                      IF matching_txs[k].type = Missing THEN "unknown"
                      ELSE matching_txs[k].type],
               !.first_seen = IF timestamps = {} THEN None
                              ELSE str(MinOf(timestamps)),
               !.last_seen = IF timestamps = {} THEN None
                             ELSE str(MaxOf(timestamps))]

\* ProgramIdMatchDetector.detect_from_parsed_txs(contract, parsed_txs)
detect_from_parsed_txs(contract, parsed_txs) ==
    LET config == contract.detection_config
        discriminators ==
            { config.instruction_discriminators[k] :
                k \in 1..Len(config.instruction_discriminators) }
        matching_txs == SelectTxs(parsed_txs, contract.address, discriminators)
        types_seen == { IF matching_txs[k].type = Missing THEN "unknown"
                        ELSE matching_txs[k].type : k \in 1..Len(matching_txs) }
        timestamps == { matching_txs[k].timestamp :
                          k \in { k \in 1..Len(matching_txs) :
                                    matching_txs[k].timestamp # 0 } }
    IN IF Len(matching_txs) = 0 THEN DetectionResult
       ELSE [DetectionResult EXCEPT
               !.interacted = TRUE,
               !.interaction_count = Len(matching_txs),
               !.signal_types = ListOfSet(types_seen),
               !.first_seen = IF timestamps = {} THEN None
                              ELSE str(MinOf(timestamps)),
               !.last_seen = IF timestamps = {} THEN None
                             ELSE str(MaxOf(timestamps))]

RECURSIVE DetectAll(_, _, _)
\* for contract in protocol.contracts: _merge_result(result, detect(...))
DetectAll(result, contracts, parsed_txs) ==
    IF Len(contracts) = 0 THEN result
    ELSE DetectAll(_merge_result(result,
                       detect_from_parsed_txs(Head(contracts), parsed_txs)),
                   Tail(contracts), parsed_txs)

Prog1Contract == ContractEntry("Prog1", "program_id_match", DetectionConfig)

Prog1Discriminated ==
    ContractEntry("Prog1", "program_id_match",
        [DetectionConfig EXCEPT !.instruction_discriminators = << <<1, 2>> >>])

Prog2Contract == ContractEntry("Prog2", "program_id_match", DetectionConfig)

\* the catalogs a Solana scan is run against
SolanaCatalogs ==
    { << Protocol("s1", FALSE, <<Prog1Discriminated, Prog2Contract>>),
         Protocol("s2", TRUE, <<Prog1Contract>>),
         Protocol("s3", FALSE, <<Prog2Contract>>) >>,
      << Protocol("t1", FALSE, <<Prog1Contract>>) >> }

\* the lists of at most n transactions over the pool
TxLists(n) == UNION { [1..k -> TxPool] : k \in 0..n }

\* ------------------------------------------------------------------------
\* scan_wallet (app/services/scanner.py) and compute_scan_window (rpc.py)
\* ------------------------------------------------------------------------

\* a slip: the tokened cap is forgotten
ProtocolBudget_NoCap(has_token, remaining_rpc) == remaining_rpc

\* budget = min(remaining_rpc, 3) if protocol.has_token else remaining_rpc
ProtocolBudget(has_token, remaining_rpc) ==
    IF has_token THEN Min(remaining_rpc, TokenedCap) ELSE remaining_rpc

\* a slip: the protocol at which the check trips is not recorded
SkippedFrom_OffByOne(ps, idx) == Ids(SubSeq(ps, idx + 2, Len(ps)))

\* [p.id for p in protocols[i:]], i counted from 0
SkippedFrom(ps, idx) == Ids(SubSeq(ps, idx + 1, Len(ps)))

\* a slip: the budget check lets a spent budget through
RpcBudgetExceeded_Never(used, limit) == FALSE

\* rpc_used >= settings.max_rpc_calls_per_scan
RpcBudgetExceeded(used, limit) == used >= limit

\* a slip: a failed resolution reports nothing skipped
ResolutionFailure_NoSkips(ps) ==
    [tokenless |-> <<>>, tokened |-> <<>>, completeness |-> "error",
     skipped |-> <<>>]

\* return [], [], "error", [p.id for p in protocols]
ResolutionFailure(ps) ==
    [tokenless |-> <<>>, tokened |-> <<>>, completeness |-> "error",
     skipped |-> Ids(ps)]

\* _primary_mode(protocol)
_primary_mode(protocol) ==
    IF Len(protocol.contracts) > 0
    THEN protocol.contracts[1].detection_mode ELSE "unknown"

\* set(result.signal_types)
TypeSet(types) == { types[k] : k \in 1..Len(types) }

_build_tokenless_signal(protocol, result) ==
    [protocol_id |-> protocol.id, interacted |-> result.interacted,
     first_seen |-> result.first_seen, last_seen |-> result.last_seen,
     interaction_count |-> result.interaction_count,
     signal_types |-> TypeSet(result.signal_types),
     signal_strength |-> "none",
     detection_mode |-> _primary_mode(protocol)]

_build_tokened_signal(protocol, result) ==
    [protocol_id |-> protocol.id, interacted |-> result.interacted]

\* window_days clamped to [min_window_days, max_window_days]
Clamp_Unclamped(days, lo, hi) == days

\* max(settings.min_window_days, min(settings.max_window_days, window_days))
Clamp(days, lo, hi) == Max(lo, Min(hi, days))

ClampWindowDays(days) == Clamp(days, min_window_days, max_window_days)

\* estimated_start = max(0, latest_block - estimated_blocks_back)
EstimatedStart(latest_block, days, block_time) ==
    Max(0, latest_block - (days * SecondsPerDay) \div block_time)

CapStart_Uncapped(start_block, latest_block, cap) == start_block

\* the cap on the block range: start_block raised to latest_block - cap
CapStart(start_block, latest_block, cap) ==
    IF cap > 0 /\ start_block < latest_block - cap
    THEN latest_block - cap
    ELSE start_block

\* strftime("%Y-%m-%d") of a Unix time: the day it falls on
DateOf(ts) == <<ts \div SecondsPerDay>>

VARIABLES
    chain,                  \* "base", "solana", or "none" outside a scan
    protocols,              \* the catalog handed to scan_wallet
    window_days,            \* the window_days argument
    max_rpc_calls_per_scan, \* the setting of this run
    pc,                     \* position of the scan
    elapsed,                \* last value read of time.monotonic() - start_time
    cache,                  \* _block_ts_cache: block -> timestamp
    search,                 \* locals of compute_scan_window and the search
    from_block, to_block,   \* the resolved window
    rpc_used,               \* scan_wallet's rpc_used
    i,                      \* index of the loop over the protocols, from 0
    completeness, skipped,
    tokenless_signals, tokened_signals,
    rpc_budget,             \* _scan_evm_protocol: the budget argument
    merged, total_rpc, ci,  \* _scan_evm_protocol: locals; ci counts from 0
    hyb,                    \* locals of _run_hybrid_evm
    det,                    \* locals of the running detector's detect()
    sol,                    \* locals of _scan_solana_protocols
    obs                     \* observations of the run (not program state)

VARIABLES
    mpc,        \* position of the merge run: "seq", "group", "fold", "done",
                \* then "noop", "once", "twice" or "permuted"
    sources,    \* the sources A, B, C in merge order
    target0,    \* the target T before any merge
    target,     \* T while the sources are merged into it one by one
    mk,         \* number of sources merged into target so far
    group,      \* A while B, C are merged into it
    gk,         \* number of sources held by group so far
    target2,    \* T after the combined result was merged into it
    extra,      \* one more source merged after the run
    order,      \* another order of the sources
    target3,    \* the target after extra was merged, or T after the
                \* sources were merged in the other order
    target4     \* target3 after extra was merged once more

VARIABLES
    score       \* a call of calculate_strength: its arguments, its result,
                \* and the result of a second call with a larger count

VARIABLES
    summary     \* a call of build_summary and of generate_next_actions on
                \* its result: the signal lists, the summary, the
                \* suggestions, and the likelihood of a second call with
                \* other tokened signals

VARIABLES
    scan_cache, \* a TTLCache: its _store, the clock time.time() reads, and
                \* what the calls made on it so far were and returned
    route,      \* the POST requests handled by airdrop_exposure_scan: each
                \* one's position and locals, and the calls of scan_wallet
    extract     \* a call of extract_param: its arguments and its result

VARIABLES
    window,     \* a call of compute_scan_window on its own: its settings,
                \* the chain it reads, _block_ts_cache, the locals of the
                \* search, the blocks probed and the dict returned
    batch,      \* calls of batch_get_block_timestamps that share
                \* _block_ts_cache: the memo, each call's lookups and
                \* result, and the requests sent
    limiter,    \* a RateLimitMiddleware: _hits, _last_cleanup, the clock,
                \* and the requests dispatched so far
    matched     \* a call of detect_from_parsed_txs: its arguments and the
                \* result

\* the variables of the functions checked on their own
unitVars == <<window, batch, limiter, matched>>

\* the variables of the service around the scan
serviceVars == <<scan_cache, route, extract>>

mergeVars ==
    <<mpc, sources, target0, target, mk, group, gk, target2, extra, order,
      target3, target4>>

\* what the first two groupings of a merge run leave alone
mergeRest == <<extra, order, target3, target4>>

\* the variables of a scan
scanOnly ==
    <<chain, protocols, window_days, max_rpc_calls_per_scan, pc, elapsed,
      cache, search, from_block, to_block, rpc_used, i, completeness, skipped,
      tokenless_signals, tokened_signals, rpc_budget, merged, total_rpc, ci,
      hyb, det, sol, obs>>

scanVars == <<scanOnly, score, summary, serviceVars, unitVars>>

\* no call made yet
NoCall == [q |-> 0, chunk_start |-> 0, chunk_end |-> 0, ok |-> TRUE]

NoDet ==
    [mode |-> "none", contract |-> ProgramContract, rpc_budget |-> 0,
     caller |-> "none", at |-> "none", q |-> 0, chunk_end |-> 0,
     result |-> DetectionResult, all_logs |-> <<>>, logs1 |-> <<>>,
     logs2 |-> <<>>, issued |-> 0, last |-> NoCall, ranges |-> <<>>]

NoHyb ==
    [contract |-> ProgramContract, budget |-> 0, used |-> 0, si |-> 0,
     results |-> <<>>, caller |-> "none", started |-> <<>>]

NoSearch ==
    [latest_block |-> 0, low |-> 0, high |-> 0, it |-> 0, rpc_calls |-> 0,
     search_calls |-> 0, target_timestamp |-> 0, days |-> 0]

\* helius_available is helius_client.available, a setting of the process
NoSol ==
    [helius_available |-> FALSE, sig_ids |-> 0, parsed_txs |-> <<>>,
     parse_failures |-> 0]

\* observations: window_calls is window["rpc_calls_used"]; issued counts
\* the eth_getLogs requests sent; proto_issued those of the running
\* protocol, hyb_issued those of the running hybrid contract; started lists the indexes of the protocols whose detection was
\* entered; attributed the calls _scan_evm_protocol returned per protocol;
\* given the budget it was handed; tripped the index at which a budget
\* check tripped (NoneInt if none); resolution_failed whether the window or
\* the signatures could not be resolved; post_lookups the
\* eth_getBlockByNumber requests sent after the loop; round is 0 for a
\* scan on its own, 1 and 2 for the first and the second of two scans of
\* one process, first the outcome of the first of the two, responses what
\* the chain answered to each of their requests; sig_fetches and parse_runs
\* count the calls of _fetch_solana_signatures and
\* _parse_solana_transactions that returned
\* the outcome of the first of two scans, before there is one
NoFirst ==
    [completeness |-> "none", skipped |-> <<>>, elapsed |-> 0,
     window_calls |-> 0]

\* the answers of the chain noted so far: none
NoResponses == [k \in {} |-> 0]

NoObs ==
    [window_calls |-> 0, issued |-> 0, proto_issued |-> 0, hyb_issued |-> 0,
     started |-> <<>>,
     attributed |-> <<>>, given |-> <<>>, tripped |-> NoneInt,
     resolution_failed |-> FALSE, post_lookups |-> 0,
     round |-> 0, first |-> NoFirst, responses |-> NoResponses,
     sig_fetches |-> 0, parse_runs |-> 0]

\* the request key of a call to the chain: its kind, then what it asks for
LatestKey == <<"eth_blockNumber", 0, 0, "", 0, 0>>

SignaturesKey == <<"getSignaturesForAddress", 0, 0, "", 0, 0>>

ProbeKey(mid) == <<"eth_getBlockByNumber", mid, 0, "", 0, 0>>

\* the chain answers a request as it answered it before
Answered(key, response) ==
    key \in DOMAIN obs.responses => obs.responses[key] = response

\* the observations with the chain's answer to a request noted
Recorded(o, key, response) ==
    IF o.round = 0
    THEN o
    ELSE [o EXCEPT !.responses =
             [k \in DOMAIN o.responses \cup {key} |->
                 IF k = key THEN response ELSE o.responses[k]]]

\* a call that raised, a call that returned value
Raised(value) == [ok |-> FALSE, value |-> value]

Returned(value) == [ok |-> TRUE, value |-> value]

\* detect(user_address, contract, from_block, to_block, rpc_budget) is
\* entered: the frame of the call
DetectFrame(contract, mode, budget, caller) ==
    [NoDet EXCEPT
       !.mode = mode, !.contract = contract, !.rpc_budget = budget,
       !.caller = caller, !.q = 0, !.chunk_end = to_block,
       !.at = CASE mode = "event_topic" ->
                     IF Len(contract.detection_config.event_signatures) = 0
                     THEN "return" ELSE "query"
                [] mode = "transfer_to_contract" ->
                     IF Len(contract.detection_config.token_contracts) = 0
                     THEN "return" ELSE "query"
                [] OTHER -> "chunk"]

\* the variables of scan_wallet's own frame
scanFrame ==
    <<from_block, to_block, rpc_used, i, completeness, skipped,
      tokenless_signals, tokened_signals>>

\* the variables of _scan_evm_protocol's frame
protoFrame == <<rpc_budget, merged, total_rpc, ci>>

\* the inputs of the run
inputs ==
    <<chain, protocols, window_days, max_rpc_calls_per_scan, score, summary,
      serviceVars, unitVars>>

\* what no step of a scan changes: its inputs, and the merge runs
fixed == <<inputs, mergeVars>>

\* ---- the detectors, one step per loop test or eth_getLogs call ----------

\* a slip: a failed call is counted but the same chunk is asked again
AfterFailedCall_Retry(d) ==
    [d EXCEPT
       !.result.rpc_calls_used = @ + 1,
       !.issued = @ + 1,
       !.last = [q |-> d.q, chunk_start |-> ChunkStart(d.chunk_end, from_block),
                 chunk_end |-> d.chunk_end, ok |-> FALSE],
       !.ranges = Append(@, <<d.q, ChunkStart(d.chunk_end, from_block),
                              d.chunk_end>>)]

\* the except branch of the chunk loop: the call on
\* [chunk_start, chunk_end] raised; it is counted and the walk moves to the
\* next older chunk
AfterFailedCall(d) ==
    LET chunk_start == ChunkStart(d.chunk_end, from_block)
    IN [d EXCEPT
          !.result.rpc_calls_used = @ + 1,
          !.chunk_end = chunk_start - 1,
          !.issued = @ + 1,
          !.last = [q |-> d.q, chunk_start |-> chunk_start,
                    chunk_end |-> d.chunk_end, ok |-> FALSE],
          !.ranges = Append(@, <<d.q, chunk_start, d.chunk_end>>)]

\* the try branch of the chunk loop: the call on [chunk_start, chunk_end]
\* answered; it is counted and the walk moves to the next older chunk
AfterCall(d) ==
    LET chunk_start == ChunkStart(d.chunk_end, from_block)
    IN [d EXCEPT
          !.result.rpc_calls_used = @ + 1,
          !.chunk_end = chunk_start - 1,
          !.issued = @ + 1,
          !.last = [q |-> d.q, chunk_start |-> chunk_start,
                    chunk_end |-> d.chunk_end, ok |-> TRUE],
          !.ranges = Append(@, <<d.q, chunk_start, d.chunk_end>>)]

\* the key of the eth_getLogs request the running detector sends next
LogsKey == <<"eth_getLogs", i, ci, det.mode, det.q, det.chunk_end>>

\* an eth_getLogs request is sent and answered
CountCall(response) ==
    /\ Answered(LogsKey, response)
    /\ obs' = [Recorded(obs, LogsKey, response) EXCEPT
                 !.issued = @ + 1, !.proto_issued = @ + 1,
                 !.hyb_issued = IF det.caller = "hybrid" THEN @ + 1 ELSE @]

Calling(mode) ==
    /\ pc = "detect"
    /\ det.mode = mode
    /\ det.at = "chunk"
    /\ ChunkLoopCond(det.chunk_end, from_block, det.result.rpc_calls_used,
                     det.rpc_budget)

LoopOver(mode) ==
    /\ pc = "detect"
    /\ det.mode = mode
    /\ det.at = "chunk"
    /\ ~ChunkLoopCond(det.chunk_end, from_block, det.result.rpc_calls_used,
                      det.rpc_budget)

detRest ==
    <<fixed, pc, elapsed, cache, search, scanFrame, protoFrame, hyb, sol>>

\* EventTopicDetector.detect: for event_sig in config.event_signatures
EventTopicNextSignature ==
    /\ pc = "detect" /\ det.mode = "event_topic" /\ det.at = "query"
    /\ det' = IF det.q < Len(det.contract.detection_config.event_signatures)
                 /\ det.result.rpc_calls_used < det.rpc_budget
              THEN [det EXCEPT !.at = "chunk", !.chunk_end = to_block]
              ELSE [det EXCEPT !.at = "return"]
    /\ UNCHANGED <<detRest, obs>>

\* EventTopicDetector.detect: eth_get_logs answers
EventTopicGetLogs ==
    /\ Calling("event_topic")
    /\ \E logs \in LogChoices(ChunkStart(det.chunk_end, from_block), det.chunk_end) :
         /\ det' = [AfterCall(det) EXCEPT
                      !.result = EventTopicAccumulate(@, logs,
                          det.contract.detection_config
                             .event_signatures[det.q + 1].interaction_type)]
         /\ CountCall(Returned(logs))
    /\ UNCHANGED detRest

\* EventTopicDetector.detect: eth_get_logs raises
EventTopicGetLogsFails ==
    /\ Calling("event_topic")
    /\ det' = AfterFailedCall(det)
    /\ CountCall(Raised(<<>>))
    /\ UNCHANGED detRest

\* EventTopicDetector.detect: the while loop of one signature ends
EventTopicSignatureDone ==
    /\ LoopOver("event_topic")
    /\ det' = [det EXCEPT !.q = @ + 1, !.at = "query"]
    /\ UNCHANGED <<detRest, obs>>

\* TransferToContractDetector.detect: for token_addr in config.token_contracts
TransferToNextToken ==
    /\ pc = "detect" /\ det.mode = "transfer_to_contract" /\ det.at = "query"
    /\ det' = IF det.q < Len(det.contract.detection_config.token_contracts)
                 /\ det.result.rpc_calls_used < det.rpc_budget
              THEN [det EXCEPT !.at = "chunk", !.chunk_end = to_block,
                               !.all_logs = <<>>]
              ELSE [det EXCEPT !.at = "return"]
    /\ UNCHANGED <<detRest, obs>>

\* TransferToContractDetector.detect: eth_get_logs answers
TransferToGetLogs ==
    /\ Calling("transfer_to_contract")
    /\ \E logs \in LogChoices(ChunkStart(det.chunk_end, from_block), det.chunk_end) :
         /\ det' = [AfterCall(det) EXCEPT !.all_logs = @ \o logs]
         /\ CountCall(Returned(logs))
    /\ UNCHANGED detRest

\* TransferToContractDetector.detect: eth_get_logs raises
TransferToGetLogsFails ==
    /\ Calling("transfer_to_contract")
    /\ det' = AfterFailedCall(det)
    /\ CountCall(Raised(<<>>))
    /\ UNCHANGED detRest

\* TransferToContractDetector.detect: one token's chunks are done, its logs
\* are folded into the result
TransferToTokenDone ==
    /\ LoopOver("transfer_to_contract")
    /\ det' = [det EXCEPT
                 !.result = TransferToAccumulate(@, det.all_logs,
                                det.contract.detection_config),
                 !.q = @ + 1, !.at = "query"]
    /\ UNCHANGED <<detRest, obs>>

\* TxToContractDetector.detect: eth_get_logs answers (query 0 is the
\* topic1 query, query 1 the topic2 query)
TxToGetLogs ==
    /\ Calling("tx_to_contract")
    /\ \E logs \in LogChoices(ChunkStart(det.chunk_end, from_block), det.chunk_end) :
         /\ det' = IF det.q = 0
                   THEN [AfterCall(det) EXCEPT !.logs1 = @ \o logs]
                   ELSE [AfterCall(det) EXCEPT !.logs2 = @ \o logs]
         /\ CountCall(Returned(logs))
    /\ UNCHANGED detRest

\* TxToContractDetector.detect: eth_get_logs raises
TxToGetLogsFails ==
    /\ Calling("tx_to_contract")
    /\ det' = AfterFailedCall(det)
    /\ CountCall(Raised(<<>>))
    /\ UNCHANGED detRest

\* TxToContractDetector.detect: a query's while loop ends; after the
\* second one the logs are deduplicated and folded
TxToQueryDone ==
    /\ LoopOver("tx_to_contract")
    /\ det' = IF det.q = 0
              THEN [det EXCEPT !.q = 1, !.chunk_end = to_block]
              ELSE [det EXCEPT
                      !.result = TxToFinish(@, det.logs1, det.logs2),
                      !.q = 2, !.at = "return"]
    /\ UNCHANGED <<detRest, obs>>

\* ---- _run_hybrid_evm -----------------------------------------------------

\* _run_hybrid_evm is entered: its frame
HybridFrame(contract, budget, caller) ==
    [contract |-> contract, budget |-> budget, used |-> 0, si |-> 0,
     results |-> <<>>, caller |-> caller, started |-> <<>>]

HybridOver_BudgetIgnored ==
    hyb.si >= Len(hyb.contract.detection_config.sub_detectors)

\* the loop over the sub-detectors is left: the list is used up, or
\* used >= budget
HybridOver ==
    \/ hyb.si >= Len(hyb.contract.detection_config.sub_detectors)
    \/ hyb.used >= hyb.budget

\* _run_hybrid_evm: for sub in config.sub_detectors
HybridNextSub ==
    /\ pc = "hybrid"
    /\ ~HybridOver
    /\ LET mode_str == hyb.contract.detection_config.sub_detectors[hyb.si + 1]
       IN IF IsDetectionMode(mode_str) /\ HasEvmDetector(mode_str)
          THEN /\ det' = DetectFrame(hyb.contract, mode_str,
                                     hyb.budget - hyb.used, "hybrid")
               /\ pc' = "detect"
               /\ hyb' = [hyb EXCEPT
                            !.started =
                               Append(@, [si |-> hyb.si, mode |-> mode_str,
                                          budget |-> hyb.budget - hyb.used])]
          ELSE /\ hyb' = [hyb EXCEPT !.si = @ + 1]
               /\ UNCHANGED <<det, pc>>
    /\ UNCHANGED <<fixed, sol, elapsed, cache, search, scanFrame, protoFrame, obs>>

RECURSIVE MergeAll(_, _)
\* for sub_result, sub_calls in sub_results: _merge_result(merged, sub_result)
MergeAll(tgt, results) ==
    IF Len(results) = 0 THEN tgt
    ELSE MergeAll(_merge_result(tgt, Head(results)[1]), Tail(results))

RECURSIVE SumCalls(_)
\* for sub_result, sub_calls in sub_results: total_rpc += sub_calls
SumCalls(results) ==
    IF Len(results) = 0 THEN 0
    ELSE Head(results)[2] + SumCalls(Tail(results))

\* _run_hybrid_evm returns its results; _scan_evm_protocol adds up the
\* calls, merges the results and goes on to the next contract
HybridReturn ==
    /\ pc = "hybrid"
    /\ HybridOver
    /\ IF hyb.caller = "proto"
       THEN /\ total_rpc' = total_rpc + SumCalls(hyb.results)
            /\ merged' = MergeAll(merged, hyb.results)
            /\ ci' = ci + 1
            /\ pc' = "contract"
            /\ hyb' = NoHyb
       ELSE /\ pc' = "returned"
            /\ UNCHANGED <<total_rpc, merged, ci, hyb>>
    /\ UNCHANGED <<fixed, sol, elapsed, cache, search, scanFrame, rpc_budget, det, obs>>

\* detect() returns to its caller
DetectReturn ==
    /\ pc = "detect" /\ det.at = "return"
    /\ CASE det.caller = "proto" ->
              /\ total_rpc' = total_rpc + det.result.rpc_calls_used
              /\ merged' = _merge_result(merged, det.result)
              /\ ci' = ci + 1
              /\ pc' = "contract"
              /\ det' = NoDet
              /\ hyb' = hyb
         [] det.caller = "hybrid" ->
              /\ hyb' = [hyb EXCEPT
                           !.used = @ + det.result.rpc_calls_used,
                           !.results = Append(@, <<det.result,
                                                   det.result.rpc_calls_used>>),
                           !.si = @ + 1]
              /\ pc' = "hybrid"
              /\ det' = NoDet
              /\ UNCHANGED <<total_rpc, merged, ci>>
         [] OTHER ->
              /\ pc' = "returned"
              /\ UNCHANGED <<total_rpc, merged, ci, det, hyb>>
    /\ UNCHANGED <<fixed, sol, elapsed, cache, search, scanFrame, rpc_budget, obs>>

\* ---- _scan_evm_protocol --------------------------------------------------

\* a slip: the blocks held by the memo are charged to the protocol
ContractsOver_MemoCharged ==
    \/ ci >= Len(protocols[i + 1].contracts)
    \/ total_rpc + Cardinality(DOMAIN cache) >= rpc_budget

ContractsOver ==
    ci >= Len(protocols[i + 1].contracts) \/ total_rpc >= rpc_budget

\* _scan_evm_protocol: for contract in protocol.contracts
NextContract ==
    /\ pc = "contract"
    /\ ~ContractsOver
    /\ LET contract == protocols[i + 1].contracts[ci + 1]
           remaining == rpc_budget - total_rpc
           config == contract.detection_config
       IN CASE contract.detection_mode = "hybrid" ->
                 IF Len(config.sub_detectors) = 0
                 THEN /\ ci' = ci + 1
                      /\ UNCHANGED <<pc, hyb, det>>
                 ELSE /\ hyb' = HybridFrame(contract, remaining, "proto")
                      /\ pc' = "hybrid"
                      /\ UNCHANGED <<ci, det>>
            [] contract.detection_mode = "program_id_match" ->
                 /\ ci' = ci + 1
                 /\ UNCHANGED <<pc, hyb, det>>
            [] OTHER ->
                 IF HasEvmDetector(contract.detection_mode)
                 THEN /\ det' = DetectFrame(contract, contract.detection_mode,
                                            remaining, "proto")
                      /\ pc' = "detect"
                      /\ UNCHANGED <<ci, hyb>>
                 ELSE /\ ci' = ci + 1
                      /\ UNCHANGED <<pc, hyb, det>>
    /\ obs' = [obs EXCEPT !.hyb_issued = 0]
    /\ UNCHANGED <<fixed, sol, elapsed, cache, search, scanFrame, rpc_budget,
                   merged, total_rpc>>

\* _scan_evm_protocol returns (merged, total_rpc); scan_wallet charges the
\* calls and appends the protocol's signal
ProtocolReturn ==
    /\ pc = "contract"
    /\ ContractsOver
    /\ rpc_used' = rpc_used + total_rpc
    /\ IF protocols[i + 1].has_token
       THEN /\ tokened_signals' = Append(tokened_signals,
                   _build_tokened_signal(protocols[i + 1], merged))
            /\ UNCHANGED tokenless_signals
       ELSE /\ tokenless_signals' = Append(tokenless_signals,
                   _build_tokenless_signal(protocols[i + 1], merged))
            /\ UNCHANGED tokened_signals
    /\ i' = i + 1
    /\ pc' = "loop"
    /\ obs' = [obs EXCEPT !.attributed = Append(@, total_rpc)]
    /\ UNCHANGED <<fixed, sol, elapsed, cache, search, from_block, to_block,
                   completeness, skipped, protoFrame, hyb, det>>

\* ---- scan_wallet on EVM ---------------------------------------------------

EmptyCache == [b \in {} |-> 0]

CachePut_Dropped(c, block_num, ts) == c

\* _block_ts_cache[block_num] = ts
CachePut(c, block_num, ts) ==
    [b \in DOMAIN c \cup {block_num} |-> IF b = block_num THEN ts ELSE c[b]]

\* scan_wallet returns the short-circuit result of a failed resolution
ReturnResolutionFailure(key) ==
    LET r == ResolutionFailure(protocols)
    IN /\ Answered(key, Raised(0))
       /\ tokenless_signals' = r.tokenless
       /\ tokened_signals' = r.tokened
       /\ completeness' = r.completeness
       /\ skipped' = r.skipped
       /\ pc' = "done"
       /\ obs' = [Recorded(obs, key, Raised(0)) EXCEPT
                    !.resolution_failed = TRUE]

\* compute_scan_window: eth_blockNumber answers; the search bracket is set
ComputeScanWindow ==
    /\ pc = "start" /\ chain = "base"
    /\ \E latest_block \in LatestBlocks :
         LET days == ClampWindowDays(window_days)
         IN /\ Answered(LatestKey, Returned(latest_block))
            /\ obs' = Recorded(obs, LatestKey, Returned(latest_block))
            /\ search' = [latest_block |-> latest_block,
                          low |-> EstimatedStart(latest_block, days,
                                                 base_block_time_seconds),
                          high |-> latest_block, it |-> 0, rpc_calls |-> 1,
                          search_calls |-> 0,
                          target_timestamp |-> NowTs - days * SecondsPerDay,
                          days |-> days]
    /\ pc' = "search"
    /\ UNCHANGED <<fixed, sol, elapsed, cache, scanFrame, protoFrame, hyb, det>>

\* compute_scan_window: eth_blockNumber raises; scan_wallet catches it
ComputeScanWindowFails ==
    /\ pc = "start" /\ chain = "base"
    /\ ReturnResolutionFailure(LatestKey)
    /\ UNCHANGED <<fixed, sol, elapsed, cache, search, from_block, to_block,
                   rpc_used, i, protoFrame, hyb, det>>

SearchDone_NoCap(sr) == sr.high - sr.low <= SearchWidth

\* the loop of the search is left: range(20) is used up, or the bracket
\* is narrow
SearchDone(sr) ==
    sr.it >= SearchIterations \/ sr.high - sr.low <= SearchWidth

SearchOver == SearchDone(search)

\* the bracket after a probe of mid answered mid_ts
Narrow(sr, mid, mid_ts) ==
    IF mid_ts < sr.target_timestamp
    THEN [sr EXCEPT !.low = mid, !.it = @ + 1]
    ELSE [sr EXCEPT !.high = mid, !.it = @ + 1]

\* _binary_search_block_by_timestamp: the probed block is in the memo
SearchProbeCached ==
    /\ pc = "search" /\ ~SearchOver
    /\ LET mid == (search.low + search.high) \div 2
       IN /\ mid \in DOMAIN cache
          /\ search' = Narrow(search, mid, cache[mid])
    /\ UNCHANGED <<fixed, sol, pc, elapsed, cache, scanFrame, protoFrame, hyb, det, obs>>

\* _binary_search_block_by_timestamp: eth_getBlockByNumber answers
SearchProbe ==
    /\ pc = "search" /\ ~SearchOver
    /\ LET mid == (search.low + search.high) \div 2
       IN /\ mid \notin DOMAIN cache
          /\ \E mid_ts \in TsChoices :
               /\ Answered(ProbeKey(mid), Returned(mid_ts))
               /\ obs' = Recorded(obs, ProbeKey(mid), Returned(mid_ts))
               /\ cache' = CachePut(cache, mid, mid_ts)
               /\ search' = [Narrow(search, mid, mid_ts) EXCEPT
                               !.search_calls = @ + 1]
    /\ UNCHANGED <<fixed, sol, pc, elapsed, scanFrame, protoFrame, hyb, det>>

\* _binary_search_block_by_timestamp: eth_getBlockByNumber raises, which
\* compute_scan_window lets through and scan_wallet catches
SearchProbeFails ==
    /\ pc = "search" /\ ~SearchOver
    /\ (search.low + search.high) \div 2 \notin DOMAIN cache
    /\ ReturnResolutionFailure(ProbeKey((search.low + search.high) \div 2))
    /\ UNCHANGED <<fixed, sol, elapsed, cache, search, from_block, to_block,
                   rpc_used, i, protoFrame, hyb, det>>

\* compute_scan_window returns; scan_wallet takes the window and starts
\* the loop over the protocols
WindowResolved ==
    /\ pc = "search" /\ SearchOver
    /\ LET start_block == search.low
           rpc_calls == search.rpc_calls + search.search_calls
       IN /\ from_block' = CapStart(start_block, search.latest_block,
                                    max_scan_block_range)
          /\ to_block' = search.latest_block
          /\ rpc_used' = rpc_calls
          /\ obs' = [obs EXCEPT !.window_calls = rpc_calls]
    /\ tokenless_signals' = <<>>
    /\ tokened_signals' = <<>>
    /\ completeness' = "full"
    /\ skipped' = <<>>
    /\ i' = 0
    /\ pc' = "loop"
    /\ UNCHANGED <<fixed, sol, elapsed, cache, search, protoFrame, hyb, det>>

\* scan_wallet: the head of the loop over the protocols: the two budget
\* checks, then the call of _scan_evm_protocol
ProtocolLoop ==
    /\ pc = "loop" /\ chain = "base"
    /\ i < Len(protocols)
    /\ \E now \in elapsed..max_scan_seconds :
         /\ elapsed' = now
         /\ IF now >= max_scan_seconds
               \/ RpcBudgetExceeded(rpc_used, max_rpc_calls_per_scan)
            THEN /\ completeness' = "partial"
                 /\ skipped' = SkippedFrom(protocols, i)
                 /\ pc' = "post"
                 /\ obs' = [obs EXCEPT !.tripped = i]
                 /\ UNCHANGED protoFrame
            ELSE /\ rpc_budget' = ProtocolBudget(protocols[i + 1].has_token,
                                      max_rpc_calls_per_scan - rpc_used)
                 /\ merged' = DetectionResult
                 /\ total_rpc' = 0
                 /\ ci' = 0
                 /\ pc' = "contract"
                 /\ obs' = [obs EXCEPT
                              !.started = Append(@, i),
                              !.given = Append(@, rpc_budget'),
                              !.proto_issued = 0]
                 /\ UNCHANGED <<completeness, skipped>>
    /\ UNCHANGED <<fixed, sol, cache, search, from_block, to_block, rpc_used, i,
                   tokenless_signals, tokened_signals, hyb, det>>

\* scan_wallet, _scan_solana_protocols: the loop over the protocols ran to
\* its end
ProtocolLoopEnd ==
    /\ pc = "loop"
    /\ i >= Len(protocols)
    /\ pc' = "post"
    /\ UNCHANGED <<fixed, sol, elapsed, cache, search, scanFrame, protoFrame, hyb,
                   det, obs>>

\* the block numbers of the markers of the tokenless signals
MarkerBlocks(signals) ==
    { _safe_int(signals[k].first_seen) :
        k \in { k \in 1..Len(signals) :
                  Truthy(signals[k].first_seen)
                  /\ _safe_int(signals[k].first_seen) # NoneInt } }
    \cup
    { _safe_int(signals[k].last_seen) :
        k \in { k \in 1..Len(signals) :
                  Truthy(signals[k].last_seen)
                  /\ _safe_int(signals[k].last_seen) # NoneInt } }

\* _block_num_to_date(block_num_str, timestamps)
_block_num_to_date(block_num_str, timestamps) ==
    LET bn == _safe_int(block_num_str)
    IN IF bn # NoneInt /\ bn \in DOMAIN timestamps /\ timestamps[bn] # 0
       THEN DateOf(timestamps[bn]) ELSE None

\* s.first_seen / s.last_seen rewritten to dates
WithDates(signals, timestamps) ==
    [k \in 1..Len(signals) |->
        [signals[k] EXCEPT
           !.first_seen = IF Truthy(@) THEN _block_num_to_date(@, timestamps)
                          ELSE @,
           !.last_seen = IF Truthy(@) THEN _block_num_to_date(@, timestamps)
                         ELSE @]]

\* scan_wallet after the loop: no marker to convert, or every block
\* timestamp is in the memo or answered; the markers become dates
ConvertMarkers ==
    /\ pc = "post" /\ chain = "base"
    /\ LET block_numbers == MarkerBlocks(tokenless_signals)
           to_fetch == block_numbers \ DOMAIN cache
       IN \E answers \in [to_fetch -> TsChoices] :
            LET timestamps == [b \in block_numbers |->
                                 IF b \in to_fetch THEN answers[b] ELSE cache[b]]
            IN /\ cache' = [b \in DOMAIN cache \cup to_fetch |->
                              IF b \in to_fetch THEN answers[b] ELSE cache[b]]
               /\ tokenless_signals' = WithDates(tokenless_signals, timestamps)
               /\ obs' = [obs EXCEPT !.post_lookups = Cardinality(to_fetch)]
    /\ pc' = "done"
    /\ UNCHANGED <<fixed, sol, elapsed, search, from_block, to_block, rpc_used, i,
                   completeness, skipped, tokened_signals, protoFrame, hyb, det>>

\* scan_wallet after the loop: one of the gathered eth_getBlockByNumber
\* calls raises; nothing catches it and scan_wallet raises
ConvertMarkersFails ==
    /\ pc = "post" /\ chain = "base"
    /\ LET to_fetch == MarkerBlocks(tokenless_signals) \ DOMAIN cache
       IN \E failing \in SUBSET to_fetch :
            /\ failing # {}
            /\ \E answers \in [to_fetch \ failing -> TsChoices] :
                 cache' = [b \in DOMAIN cache \cup DOMAIN answers |->
                             IF b \in DOMAIN answers THEN answers[b] ELSE cache[b]]
            /\ obs' = [obs EXCEPT !.post_lookups = Cardinality(to_fetch)]
    /\ pc' = "raised"
    /\ UNCHANGED <<fixed, sol, elapsed, search, scanFrame, protoFrame, hyb, det>>

\* ---- _scan_solana_protocols ----------------------------------------------

RECURSIVE EmptySignals(_, _)
\* for protocol in protocols: _append_empty_signal(...), the tokened
\* (tokened = TRUE) or the tokenless list it builds
EmptySignals(ps, tokened) ==
    IF Len(ps) = 0 THEN <<>>
    ELSE (IF Head(ps).has_token = tokened
          THEN <<IF tokened
                 THEN _build_tokened_signal(Head(ps), DetectionResult)
                 ELSE _build_tokenless_signal(Head(ps), DetectionResult)>>
          ELSE <<>>)
         \o EmptySignals(Tail(ps), tokened)

\* _unix_ts_to_date(ts_str)
_unix_ts_to_date(ts_str) ==
    IF _safe_int(ts_str) # NoneInt THEN DateOf(_safe_int(ts_str)) ELSE None

\* s.first_seen / s.last_seen of the Solana signals rewritten to dates
WithUnixDates(signals) ==
    [k \in 1..Len(signals) |->
        [signals[k] EXCEPT
           !.first_seen = IF Truthy(@) THEN _unix_ts_to_date(@) ELSE @,
           !.last_seen = IF Truthy(@) THEN _unix_ts_to_date(@) ELSE @]]

\* parse_failures > 0 and parse_failures >= len(sig_ids) * 0.5
ParseDegraded(parse_failures, n_sigs) ==
    parse_failures > 0 /\ 2 * parse_failures >= n_sigs

solRest ==
    <<fixed, cache, search, from_block, to_block, rpc_used, protoFrame, hyb, det>>

\* _fetch_solana_signatures raises; the scan short-circuits
FetchSignaturesFails ==
    /\ pc = "start" /\ chain = "solana"
    /\ ReturnResolutionFailure(SignaturesKey)
    /\ UNCHANGED <<solRest, elapsed, i, sol>>

\* _fetch_solana_signatures answers; with no signature every protocol gets
\* an empty signal and the scan returns
FetchSignatures ==
    /\ pc = "start" /\ chain = "solana"
    /\ \E n \in 0..MaxSignatures :
         /\ sol' = [sol EXCEPT !.sig_ids = n]
         /\ IF n = 0
            THEN /\ tokenless_signals' = EmptySignals(protocols, FALSE)
                 /\ tokened_signals' = EmptySignals(protocols, TRUE)
                 /\ pc' = "done"
            ELSE /\ tokenless_signals' = <<>>
                 /\ tokened_signals' = <<>>
                 /\ pc' = "parse"
    /\ completeness' = "full"
    /\ skipped' = <<>>
    /\ obs' = [obs EXCEPT !.sig_fetches = @ + 1]
    /\ UNCHANGED <<solRest, elapsed, i>>

\* the transactions parsed so far become parsed_txs; the loop starts
Parsed(parsed, failures) ==
    /\ sol' = [sol EXCEPT !.parsed_txs = parsed, !.parse_failures = failures]
    /\ completeness' = IF ParseDegraded(failures, sol.sig_ids)
                       THEN "partial" ELSE completeness
    /\ i' = 0
    /\ pc' = "loop"
    /\ obs' = [obs EXCEPT !.parse_runs = @ + 1]

\* _parse_solana_transactions: every batch call of the enhanced API answers
ParseTransactions ==
    /\ pc = "parse" /\ sol.helius_available
    /\ \E parsed \in TxLists(sol.sig_ids) : Parsed(parsed, 0)
    /\ UNCHANGED <<solRest, elapsed, skipped, tokenless_signals,
                   tokened_signals>>

RECURSIVE Fetched(_, _, _)
\* the transactions the raw calls of signatures k..m answered, in order
Fetched(k, m, txs) ==
    IF k > m THEN <<>>
    ELSE (IF k \in DOMAIN txs THEN <<txs[k]>> ELSE <<>>) \o Fetched(k + 1, m, txs)

\* _parse_solana_transactions: the enhanced API is not configured or one of
\* its calls raised; the first max_solana_parse_batch signatures are fetched
\* one by one: a call raises, answers nothing, or answers a transaction
ParseTransactionsFallback ==
    /\ pc = "parse"
    /\ LET m == Min(sol.sig_ids, max_solana_parse_batch)
       IN \E failing \in SUBSET (1..m) :
            \E answered \in SUBSET ((1..m) \ failing) :
              \E txs \in [answered -> TxPool] :
                Parsed(Fetched(1, m, txs), Cardinality(failing))
    /\ UNCHANGED <<solRest, elapsed, skipped, tokenless_signals,
                   tokened_signals>>

\* a slip: each protocol is handed the transactions the earlier ones left
LoopParsedTxs_Consumed == SubSeq(sol.parsed_txs, i + 1, Len(sol.parsed_txs))

\* the parsed_txs that the loop hands to detect_from_parsed_txs
LoopParsedTxs == sol.parsed_txs

\* _scan_solana_protocols: one round of the loop over the protocols: the
\* wall-clock check, then the detection over the parsed transactions
SolanaProtocolLoop ==
    /\ pc = "loop" /\ chain = "solana"
    /\ i < Len(protocols)
    /\ \E now \in elapsed..max_scan_seconds :
         /\ elapsed' = now
         /\ IF now >= max_scan_seconds
            THEN /\ completeness' = "partial"
                 /\ skipped' = SkippedFrom(protocols, i)
                 /\ pc' = "post"
                 /\ obs' = [obs EXCEPT !.tripped = i]
                 /\ UNCHANGED <<i, tokenless_signals, tokened_signals>>
            ELSE LET protocol == protocols[i + 1]
                     result == DetectAll(DetectionResult, protocol.contracts,
                                         LoopParsedTxs)
                 IN /\ IF protocol.has_token
                       THEN /\ tokened_signals' = Append(tokened_signals,
                                   _build_tokened_signal(protocol, result))
                            /\ UNCHANGED tokenless_signals
                       ELSE /\ tokenless_signals' = Append(tokenless_signals,
                                   _build_tokenless_signal(protocol, result))
                            /\ UNCHANGED tokened_signals
                    /\ i' = i + 1
                    /\ obs' = [obs EXCEPT !.started = Append(@, i)]
                    /\ UNCHANGED <<pc, completeness, skipped>>
    /\ UNCHANGED <<solRest, sol>>

\* _scan_solana_protocols after the loop: the Unix timestamps of the
\* tokenless signals become dates and the scan returns
SolanaReturn ==
    /\ pc = "post" /\ chain = "solana"
    /\ tokenless_signals' = WithUnixDates(tokenless_signals)
    /\ pc' = "done"
    /\ UNCHANGED <<solRest, elapsed, i, completeness, skipped,
                   tokened_signals, sol, obs>>

\* ---- the scan as a whole -------------------------------------------------

\* the window_days arguments tried
WindowDaysChoices == {0, 2}

\* the memo as earlier scans of the process left it
InitialCaches == {EmptyCache, CachePut(EmptyCache, 24, NowTs - 3600)}

\* scan_wallet(address, "base", protocols, window_days) is called
InitEvm ==
    /\ chain = "base"
    /\ protocols \in EvmCatalogs
    /\ window_days \in WindowDaysChoices
    /\ max_rpc_calls_per_scan \in RpcLimitChoices
    /\ cache \in InitialCaches
    /\ sol = NoSol

\* scan_wallet(address, "solana", protocols, window_days) is called
InitSolana ==
    /\ chain = "solana"
    /\ protocols \in SolanaCatalogs
    /\ window_days = 0
    /\ max_rpc_calls_per_scan = LooseRpcLimit
    /\ cache = EmptyCache
    /\ sol \in { [NoSol EXCEPT !.helius_available = h] : h \in BOOLEAN }

\* scan_wallet's locals before its first statement
InitFrame ==
    /\ pc = "start"
    /\ elapsed = 0
    /\ search = NoSearch
    /\ from_block = 0 /\ to_block = 0
    /\ rpc_used = 0
    /\ i = 0
    /\ completeness = "full"
    /\ skipped = <<>>
    /\ tokenless_signals = <<>>
    /\ tokened_signals = <<>>
    /\ rpc_budget = 0
    /\ merged = DetectionResult
    /\ total_rpc = 0
    /\ ci = 0
    /\ hyb = NoHyb
    /\ det = NoDet

InitScan ==
    /\ InitEvm \/ InitSolana
    /\ InitFrame
    /\ obs = NoObs

Detectors ==
    \/ EventTopicNextSignature \/ EventTopicGetLogs \/ EventTopicGetLogsFails
    \/ EventTopicSignatureDone
    \/ TransferToNextToken \/ TransferToGetLogs \/ TransferToGetLogsFails
    \/ TransferToTokenDone
    \/ TxToGetLogs \/ TxToGetLogsFails \/ TxToQueryDone
    \/ HybridNextSub \/ HybridReturn \/ DetectReturn

NextScan ==
    \/ ComputeScanWindow \/ ComputeScanWindowFails
    \/ SearchProbeCached \/ SearchProbe \/ SearchProbeFails \/ WindowResolved
    \/ ProtocolLoop \/ ProtocolLoopEnd
    \/ NextContract \/ ProtocolReturn
    \/ Detectors
    \/ ConvertMarkers \/ ConvertMarkersFails
    \/ FetchSignatures \/ FetchSignaturesFails
    \/ ParseTransactions \/ ParseTransactionsFallback
    \/ SolanaProtocolLoop \/ SolanaReturn

\* ------------------------------------------------------------------------
\* Merging sequences of results (the way _scan_evm_protocol,
\* _run_hybrid_evm's caller and _scan_solana_protocols use _merge_result)
\* ------------------------------------------------------------------------

\* number of sources merged in one run
NumSources == 3

\* largest interaction_count of a single source
MaxSourceCount == 2

\* (first_seen, last_seen) pairs of the sources: the values of the
\* repository's merge tests, one pair that does not parse, one empty pair
MarkerPairs ==
    << <<None, None>>,
       << <<2,0,0>>, <<3,0,0>> >>,
       << <<1,0,0>>, <<2,5,0>> >>,
       << <<1,5,0>>, <<4,0,0>> >>,
       << <<9,9>>, None >>,
       << None, <<6,0>> >>,
       << <<0,5,0>>, <<2,0,0>> >>,
       << <<5,0>>, None >>,
       << <<1,DOT,5>>, <<1,DOT,5>> >> >>

\* signal type lists of the sources, by interaction count
SourceTypes(c) == IF c = 1 THEN <<"swap">> ELSE <<"supply", "swap">>

\* interaction counts of the sources: one log, or the largest count
SourceCount(k) == IF k % 2 = 1 THEN 1 ELSE MaxSourceCount

\* results a detector can return: the defaults when nothing was found,
\* otherwise interacted with a positive count
SourcePool ==
    { DetectionResult } \cup
    { [interacted |-> TRUE, interaction_count |-> SourceCount(k),
       signal_types |-> SourceTypes(SourceCount(k)),
       first_seen |-> MarkerPairs[k][1], last_seen |-> MarkerPairs[k][2],
       rpc_calls_used |-> 0] : k \in 1..Len(MarkerPairs) }

\* targets a merge can start from: a fresh result, or one that already
\* holds an earlier merge
TargetPool ==
    { DetectionResult,
      [interacted |-> TRUE, interaction_count |-> 5,
       signal_types |-> <<"swap">>,
       first_seen |-> <<1,0,0>>, last_seen |-> <<2,0,0>>, rpc_calls_used |-> 0],
      [interacted |-> TRUE, interaction_count |-> 2,
       signal_types |-> <<>>,
       first_seen |-> <<3,0,0>>, last_seen |-> None, rpc_calls_used |-> 0] }

MergeCalled ==
    /\ mpc = "seq"
    /\ sources \in [1..NumSources -> SourcePool]
    /\ target0 \in TargetPool
    /\ target = target0
    /\ mk = 0
    /\ group = DetectionResult
    /\ gk = 0
    /\ target2 = target0
    /\ extra = DetectionResult
    /\ order = <<>>
    /\ target3 = DetectionResult
    /\ target4 = DetectionResult

\* for s in sources: _merge_result(target, s)
MergeNext ==
    /\ mpc = "seq"
    /\ mk < NumSources
    /\ target' = _merge_result(target, sources[mk + 1])
    /\ mk' = mk + 1
    /\ mpc' = IF mk + 1 = NumSources THEN "group" ELSE "seq"
    /\ UNCHANGED <<sources, target0, group, gk, target2, mergeRest, scanVars>>

\* the other grouping: A is the accumulator, B and C are merged into it
MergeIntoGroup ==
    /\ mpc = "group"
    /\ gk < NumSources
    /\ group' = IF gk = 0 THEN sources[1]
                ELSE _merge_result(group, sources[gk + 1])
    /\ gk' = gk + 1
    /\ mpc' = IF gk + 1 = NumSources THEN "fold" ELSE "group"
    /\ UNCHANGED <<sources, target0, target, mk, target2, mergeRest,
                   scanVars>>

\* _merge_result(T, combined)
MergeGroupIntoTarget ==
    /\ mpc = "fold"
    /\ target2' = _merge_result(target0, group)
    /\ mpc' = "done"
    /\ UNCHANGED <<sources, target0, target, mk, group, gk, mergeRest,
                   scanVars>>

\* sources with interacted false whose other fields are not the defaults
NonInteractedPool ==
    { DetectionResult,
      [interacted |-> FALSE, interaction_count |-> 5,
       signal_types |-> <<"swap">>,
       first_seen |-> <<1>>, last_seen |-> <<9,0,0>>, rpc_calls_used |-> 2],
      [interacted |-> FALSE, interaction_count |-> 0,
       signal_types |-> <<"borrow", "swap">>,
       first_seen |-> None, last_seen |-> <<9,9,9>>, rpc_calls_used |-> 0] }

\* what every later step of a merge run leaves alone
mergeDone == <<sources, target0, target, mk, group, gk, target2>>

\* _merge_result(target, source) with source.interacted false
MergeNonInteracted ==
    /\ mpc = "done"
    /\ \E s \in NonInteractedPool :
         /\ extra' = s
         /\ target3' = _merge_result(target, s)
    /\ mpc' = "noop"
    /\ UNCHANGED <<mergeDone, order, target4, scanVars>>

\* the orders in which n sources can be merged
Orders(n) ==
    { p \in [1..n -> 1..n] : \A a, b \in 1..n : a # b => p[a] # p[b] }

RECURSIVE MergeInOrder(_, _, _)
\* for k in p: _merge_result(tgt, srcs[k])
MergeInOrder(tgt, srcs, p) ==
    IF Len(p) = 0 THEN tgt
    ELSE MergeInOrder(_merge_result(tgt, srcs[Head(p)]), srcs, Tail(p))

\* the same sources are merged into T in another order
MergePermuted ==
    /\ mpc = "done"
    /\ \E p \in Orders(NumSources) :
         /\ order' = p
         /\ target3' = MergeInOrder(target0, sources, p)
    /\ mpc' = "permuted"
    /\ UNCHANGED <<mergeDone, extra, target4, scanVars>>

\* _merge_result(target, s) for an interacted source s of the run
MergeOnce ==
    /\ mpc = "done"
    /\ \E k \in 1..NumSources :
         /\ sources[k].interacted
         /\ extra' = sources[k]
         /\ target3' = _merge_result(target, sources[k])
    /\ mpc' = "once"
    /\ UNCHANGED <<mergeDone, order, target4, scanVars>>

\* _merge_result(target, s) again, with the same s
MergeAgain ==
    /\ mpc = "once"
    /\ target4' = _merge_result(target3, extra)
    /\ mpc' = "twice"
    /\ UNCHANGED <<mergeDone, extra, order, target3, scanVars>>

NextMerge ==
    \/ MergeNext \/ MergeIntoGroup \/ MergeGroupIntoTarget
    \/ MergeNonInteracted \/ MergePermuted
    \/ MergeOnce \/ MergeAgain

vars == <<scanVars, mergeVars>>

\* ------------------------------------------------------------------------
\* calculate_strength (app/services/scoring.py)
\* ------------------------------------------------------------------------

\* _now_utc(), as the day it falls on
NowDay == NowTs \div SecondsPerDay

\* a string that is not a date
BadDate == <<-2>>

\* the date string of a day
DateString(day) == <<day>>

\* _parse_date(date_str): the day, NoneInt for None, "" and what strptime
\* rejects
_parse_date(date_str) ==
    IF ~Truthy(date_str) THEN NoneInt
    ELSE IF Len(date_str) = 1 /\ date_str[1] >= 0 THEN date_str[1]
    ELSE NoneInt

\* a slip: the two upper bands are exchanged
CountPoints_Swapped(count) ==
    IF count >= 10 THEN 2
    ELSE IF count >= 5 THEN 3
    ELSE IF count >= 2 THEN 1
    ELSE 0

\* Interaction count (0-3 pts)
CountPoints(count) ==
    IF count >= 10 THEN 3
    ELSE IF count >= 5 THEN 2
    ELSE IF count >= 2 THEN 1
    ELSE 0

\* len({t for t in types if t != "unknown_interaction"})
type_diversity(types) ==
    Cardinality({ types[k] :
                    k \in { j \in 1..Len(types) :
                              types[j] # "unknown_interaction" } })

\* Type diversity (0-3 pts)
DiversityPoints(types) ==
    IF type_diversity(types) >= 3 THEN 3
    ELSE IF type_diversity(types) >= 2 THEN 2
    ELSE IF type_diversity(types) >= 1 THEN 1
    ELSE 0

\* a slip: the bands exclude their lower bounds
calculate_strength_Exclusive(count, types, first_seen, last_seen, protocol_weight) ==
    IF count = 0 THEN "none"
    ELSE
      LET parsed_first == _parse_date(first_seen)
          parsed_last == _parse_date(last_seen)
          days_since_last ==
              IF parsed_last # NoneInt THEN NowDay - parsed_last ELSE 999
          recency == IF days_since_last <= 7 THEN 3
                     ELSE IF days_since_last <= 30 THEN 2
                     ELSE IF days_since_last <= 90 THEN 1
                     ELSE 0
          duration == IF /\ parsed_first # NoneInt /\ parsed_last # NoneInt
                         /\ parsed_last - parsed_first >= 30
                      THEN 1 ELSE 0
          raw == CountPoints(count) + DiversityPoints(types) + recency
                 + duration
          num == raw * protocol_weight[1]
          den == protocol_weight[2]
      IN IF num > 7 * den THEN "strong"
         ELSE IF num > 4 * den THEN "moderate"
         ELSE IF num > 1 * den THEN "weak"
         ELSE "none"

\* calculate_strength(count, types, first_seen, last_seen, protocol_weight);
\* the weight is the fraction protocol_weight[1] / protocol_weight[2] with a
\* positive denominator, and score >= t is score * denominator >= t *
\* denominator
calculate_strength(count, types, first_seen, last_seen, protocol_weight) ==
    IF count = 0 THEN "none"
    ELSE
      LET parsed_first == _parse_date(first_seen)
          parsed_last == _parse_date(last_seen)
          days_since_last ==
              IF parsed_last # NoneInt THEN NowDay - parsed_last ELSE 999
          recency == IF days_since_last <= 7 THEN 3
                     ELSE IF days_since_last <= 30 THEN 2
                     ELSE IF days_since_last <= 90 THEN 1
                     ELSE 0
          duration == IF /\ parsed_first # NoneInt /\ parsed_last # NoneInt
                         /\ parsed_last - parsed_first >= 30
                      THEN 1 ELSE 0
          raw == CountPoints(count) + DiversityPoints(types) + recency
                 + duration
          num == raw * protocol_weight[1]
          den == protocol_weight[2]
      IN IF num >= 7 * den THEN "strong"
         ELSE IF num >= 4 * den THEN "moderate"
         ELSE IF num >= 1 * den THEN "weak"
         ELSE "none"

\* the interaction counts scored
CountChoices == {0, 1, 2, 4, 5, 9, 10, 15}

\* the signal types of a Solana signal whose one transaction has no type
UntypedSignalTypes ==
    ListOfSet(_build_tokenless_signal(Protocol("s3", FALSE, <<Prog2Contract>>),
                  detect_from_parsed_txs(Prog2Contract, <<TxInner>>))
                .signal_types)

\* the type lists scored
TypeLists ==
    { <<>>,
      <<"unknown_interaction", "unknown_interaction">>,
      UntypedSignalTypes,
      <<"swap">>, <<"swap", "swap">>, <<"swap", "unknown_interaction">>,
      <<"swap", "supply">>, <<"swap", "supply", "borrow">>,
      <<"swap", "supply", "borrow", "stake">> }

\* the first_seen arguments scored
FirstSeenChoices ==
    { None, BadDate } \cup
    { DateString(NowDay - d) : d \in {29, 30, 73, 120} }

\* the last_seen arguments scored; -1 days ago is tomorrow
LastSeenChoices ==
    { None, <<>>, BadDate } \cup
    { DateString(NowDay - d) : d \in {-1, 0, 7, 8, 30, 31, 90, 91} }

\* the protocol weights scored, as fractions
WeightChoices ==
    { <<0, 1>>, <<1, 2>>, <<7, 10>>, <<1, 1>>, <<6, 5>>, <<-1, 1>> }

\* no call of calculate_strength
NoScore ==
    [at |-> "idle", count |-> 0, types |-> <<>>, first_seen |-> None,
     last_seen |-> None, protocol_weight |-> <<1, 1>>, strength |-> "none",
     count2 |-> 0, strength2 |-> "none"]

ScoreIdle == score = NoScore

\* build_summary not called
NoSummary ==
    [at |-> "idle", tokenless_signals |-> <<>>, tokened_signals |-> <<>>,
     chain |-> "none"]

\* a TTLCache just constructed, at time 0, no call made on it
NoCache ==
    [store |-> [k \in {} |-> 0], ttl |-> cache_ttl_seconds, now |-> 0,
     written |-> [k \in {} |-> 0], op |-> "none", key |-> "none",
     time |-> 0, result |-> None, held |-> FALSE]

\* no request received
NoRoute == [requests |-> <<>>, scan_calls |-> <<>>, loaded |-> {}]

\* extract_param not called
NoExtract == [at |-> "idle"]

\* compute_scan_window not called on its own
NoWindow == [at |-> "idle"]

\* batch_get_block_timestamps not called on its own
NoBatch == [at |-> "idle"]

\* no middleware constructed
NoLimiter == [at |-> "idle"]

\* detect_from_parsed_txs not called on its own
NoMatched == [at |-> "idle"]

UnitsIdle ==
    /\ window = NoWindow
    /\ batch = NoBatch
    /\ limiter = NoLimiter
    /\ matched = NoMatched

SummaryIdle ==
    /\ summary = NoSummary
    /\ scan_cache = NoCache
    /\ route = NoRoute
    /\ extract = NoExtract
    /\ UnitsIdle

\* calculate_strength is called
ScoreCalled ==
    \E count \in CountChoices, types \in TypeLists,
       first_seen \in FirstSeenChoices, last_seen \in LastSeenChoices,
       protocol_weight \in WeightChoices :
        score = [NoScore EXCEPT
                   !.at = "called", !.count = count, !.types = types,
                   !.first_seen = first_seen, !.last_seen = last_seen,
                   !.protocol_weight = protocol_weight]

\* calculate_strength returns
CalculateStrength ==
    /\ score.at = "called"
    /\ score' = [score EXCEPT
                   !.at = "returned",
                   !.strength = calculate_strength(score.count, score.types,
                                    score.first_seen, score.last_seen,
                                    score.protocol_weight)]
    /\ UNCHANGED <<mergeVars, scanOnly, unitVars, summary, serviceVars>>

\* calculate_strength is called once more with a larger count and the other
\* arguments as they were
CalculateAgain ==
    /\ score.at = "returned"
    /\ \E count \in CountChoices :
         /\ count > score.count
         /\ score' = [score EXCEPT
                        !.at = "again",
                        !.count2 = count,
                        !.strength2 = calculate_strength(count, score.types,
                                          score.first_seen, score.last_seen,
                                          score.protocol_weight)]
    /\ UNCHANGED <<mergeVars, scanOnly, unitVars, summary, serviceVars>>

NextScore == CalculateStrength \/ CalculateAgain

\* the merge run at rest
MergeIdle ==
    /\ mpc = "idle"
    /\ sources = <<>>
    /\ target0 = DetectionResult
    /\ target = DetectionResult
    /\ mk = 0
    /\ group = DetectionResult
    /\ gk = 0
    /\ target2 = DetectionResult
    /\ extra = DetectionResult
    /\ order = <<>>
    /\ target3 = DetectionResult
    /\ target4 = DetectionResult

\* the scan at rest
ScanIdle ==
    /\ chain = "none"
    /\ protocols = <<>>
    /\ window_days = 0
    /\ max_rpc_calls_per_scan = 0
    /\ pc = "idle"
    /\ elapsed = 0
    /\ cache = EmptyCache
    /\ search = NoSearch
    /\ from_block = 0 /\ to_block = 0
    /\ rpc_used = 0
    /\ i = 0
    /\ completeness = "full"
    /\ skipped = <<>>
    /\ tokenless_signals = <<>>
    /\ tokened_signals = <<>>
    /\ rpc_budget = 0
    /\ merged = DetectionResult
    /\ total_rpc = 0
    /\ ci = 0
    /\ hyb = NoHyb
    /\ det = NoDet
    /\ sol = NoSol
    /\ obs = NoObs

\* one scan_wallet call
Init == InitScan /\ MergeIdle /\ ScoreIdle /\ SummaryIdle

Next == NextScan

Spec == Init /\ [][Next]_vars

\* the route calls scan_wallet again in the same process, with the same
\* arguments and the same chain: the memo keeps what the first scan put in
\* it, everything else starts afresh
ScanAgain ==
    /\ pc = "done" /\ chain = "base"
    /\ obs.round = 1
    /\ pc' = "start"
    /\ elapsed' = 0
    /\ search' = NoSearch
    /\ from_block' = 0 /\ to_block' = 0
    /\ rpc_used' = 0
    /\ i' = 0
    /\ completeness' = "full"
    /\ skipped' = <<>>
    /\ tokenless_signals' = <<>>
    /\ tokened_signals' = <<>>
    /\ rpc_budget' = 0
    /\ merged' = DetectionResult
    /\ total_rpc' = 0
    /\ ci' = 0
    /\ hyb' = NoHyb
    /\ det' = NoDet
    /\ obs' = [NoObs EXCEPT
                 !.round = 2,
                 !.first = [completeness |-> completeness, skipped |-> skipped,
                            elapsed |-> elapsed,
                            window_calls |-> obs.window_calls],
                 !.responses = obs.responses]
    /\ UNCHANGED <<fixed, sol, cache>>

\* the catalogs scanned twice: one protocol, and two of which the second
\* can be the one the budget check stops at
RepeatCatalogs ==
    { << Protocol("r1", FALSE, <<TxToContract>>) >>,
      << Protocol("s1", FALSE, <<TxToContract>>),
         Protocol("s2", TRUE, <<TxToContract>>) >> }

\* the call limits of the scans run twice: tight ones, which the window
\* and a protocol or two exhaust
RepeatLimits == {TightRpcLimit, TightRpcLimit + 2}

InitRepeat ==
    /\ chain = "base"
    /\ protocols \in RepeatCatalogs
    /\ window_days \in WindowDaysChoices
    /\ max_rpc_calls_per_scan \in RepeatLimits
    /\ cache \in InitialCaches
    /\ sol = NoSol
    /\ InitFrame
    /\ obs = [NoObs EXCEPT !.round = 1]
    /\ MergeIdle
    /\ ScoreIdle
    /\ SummaryIdle

NextRepeat ==
    \/ ComputeScanWindow \/ ComputeScanWindowFails
    \/ SearchProbeCached \/ SearchProbe \/ SearchProbeFails \/ WindowResolved
    \/ ProtocolLoop \/ ProtocolLoopEnd
    \/ NextContract \/ ProtocolReturn
    \/ TxToGetLogs \/ TxToGetLogsFails \/ TxToQueryDone
    \/ DetectReturn
    \/ ConvertMarkers \/ ConvertMarkersFails
    \/ ScanAgain

\* two scans of the same wallet, one after the other
SpecRepeat == InitRepeat /\ [][NextRepeat]_vars

\* the windows the detectors are run on by themselves
DetectWindows == { <<0, 5>>, <<18, 30>>, <<6, 30>>, <<10, 30>>, <<7, 5>> }

\* largest rpc_budget a detector is run with by itself
MaxDetectBudget == 4

TransferContract2 ==
    ContractEntry("0xt2", "transfer_to_contract",
        [DetectionConfig EXCEPT !.token_contracts = <<"0xusdc", "0xdai">>])

\* the contracts a detector is run on by itself
DetectContracts ==
    {EventContract, EventContractNoSigs, TransferContract, TransferContract2,
     TxToContract, HybridContract}

\* detector.detect(...) or _run_hybrid_evm(...) is called by itself, with
\* any budget from 0
DetectCalled ==
    /\ chain = "base"
    /\ protocols = <<>>
    /\ window_days = 0
    /\ max_rpc_calls_per_scan = 0
    /\ elapsed = 0
    /\ cache = EmptyCache
    /\ search = NoSearch
    /\ \E w \in DetectWindows : from_block = w[1] /\ to_block = w[2]
    /\ rpc_used = 0
    /\ i = 0
    /\ completeness = "full"
    /\ skipped = <<>>
    /\ tokenless_signals = <<>>
    /\ tokened_signals = <<>>
    /\ rpc_budget = 0
    /\ merged = DetectionResult
    /\ total_rpc = 0
    /\ ci = 0
    /\ sol = NoSol
    /\ obs = NoObs
    /\ \E contract \in DetectContracts, budget \in 0..MaxDetectBudget :
         IF contract.detection_mode = "hybrid"
         THEN /\ pc = "hybrid"
              /\ hyb = HybridFrame(contract, budget, "harness")
              /\ det = NoDet
         ELSE /\ pc = "detect"
              /\ hyb = NoHyb
              /\ det = DetectFrame(contract, contract.detection_mode, budget,
                                   "harness")

\* one detector, or the hybrid runner, by itself
InitDetect == DetectCalled /\ MergeIdle /\ ScoreIdle /\ SummaryIdle

NextDetect == Detectors

SpecDetect == InitDetect /\ [][NextDetect]_vars

\* runs of _merge_result
InitMerge == MergeCalled /\ ScanIdle /\ ScoreIdle /\ SummaryIdle

SpecMerge == InitMerge /\ [][NextMerge]_vars

\* calls of calculate_strength
InitScore == ScoreCalled /\ ScanIdle /\ MergeIdle /\ SummaryIdle

SpecScore == InitScore /\ [][NextScore]_vars

\* the fields of a DetectionResult that a merge defines
Fields(r) ==
    <<r.interacted, r.interaction_count, r.signal_types, r.first_seen, r.last_seen>>

FirstValues(k) ==
    { _safe_int(sources[j].first_seen) : j \in
        { j \in 1..k : sources[j].interacted /\ Truthy(sources[j].first_seen)
                       /\ _safe_int(sources[j].first_seen) # NoneInt } }

LastValues(k) ==
    { _safe_int(sources[j].last_seen) : j \in
        { j \in 1..k : sources[j].interacted /\ Truthy(sources[j].last_seen)
                       /\ _safe_int(sources[j].last_seen) # NoneInt } }

SetMin(S) == CHOOSE x \in S : \A y \in S : x <= y

SetMax(S) == CHOOSE x \in S : \A y \in S : x >= y

\* C10: merging into an initially empty target, first_seen is the minimum
\* and last_seen the maximum, as integers, over the interacted sources
\* merged so far that set them; with no such source the marker stays None
ExtremesAreMinMax ==
    target0 = DetectionResult =>
        /\ IF FirstValues(mk) = {} THEN target.first_seen = None
           ELSE _safe_int(target.first_seen) = SetMin(FirstValues(mk))
        /\ IF LastValues(mk) = {} THEN target.last_seen = None
           ELSE _safe_int(target.last_seen) = SetMax(LastValues(mk))

\* C10 witness: first_seen 200, then 100, then 150 gives 100
ExtremesWitness ==
    /\ target0 = DetectionResult
    /\ mk = NumSources
    /\ sources[1].first_seen = <<2,0,0>>
    /\ sources[2].first_seen = <<1,0,0>>
    /\ sources[3].first_seen = <<1,5,0>>
    /\ target.first_seen = <<1,0,0>>
    /\ target.last_seen = <<4,0,0>>

\* ------------------------------------------------------------------------
\* The scan: budgets, truncation, failures
\* ------------------------------------------------------------------------

RECURSIVE SumOf(_)
SumOf(seq) == IF Len(seq) = 0 THEN 0 ELSE Head(seq) + SumOf(Tail(seq))

\* the EVM scan is past window resolution
WindowIsResolved ==
    chain = "base" /\ pc \in {"loop", "contract", "hybrid", "detect", "post",
                              "done", "raised"}
    /\ ~obs.resolution_failed

\* a protocol's detection is running
InDetection == pc \in {"contract", "hybrid", "detect"}

\* C1: on EVM the calls returned by _scan_evm_protocol, summed over the
\* protocols, never exceed max_rpc_calls_per_scan minus the calls of window
\* resolution (0 when the window used the whole limit), they are the
\* eth_getLogs requests really sent, and rpc_used never exceeds the larger
\* of the limit and the window's calls
BudgetConservation ==
    WindowIsResolved =>
        /\ SumOf(obs.attributed)
             <= Max(0, max_rpc_calls_per_scan - obs.window_calls)
        /\ obs.issued <= Max(0, max_rpc_calls_per_scan - obs.window_calls)
        /\ rpc_used = obs.window_calls + SumOf(obs.attributed)
        /\ rpc_used <= Max(max_rpc_calls_per_scan, obs.window_calls)
        /\ pc \in {"loop", "post", "done", "raised"}
             => SumOf(obs.attributed) = obs.issued

\* C1 witness: two protocols used calls, some call failed, and together
\* with the window's calls the whole limit is spent
BudgetConservationWitness ==
    /\ chain = "base" /\ pc = "done"
    /\ Len(obs.attributed) >= 2
    /\ obs.attributed[1] > 0 /\ obs.attributed[2] > 0
    /\ obs.window_calls > 1
    /\ SumOf(obs.attributed) = max_rpc_calls_per_scan - obs.window_calls

\* C2: when a budget check trips before protocol index i, the loop stops at
\* once, no detection runs for an index >= i, skipped is the ids of
\* protocols[i:] in catalog order and completeness is "partial"; a
\* detection only ever runs while neither limit is reached
TruncationDeterminism ==
    /\ obs.tripped # NoneInt =>
         /\ pc \in {"post", "done", "raised"}
         /\ i = obs.tripped
         /\ skipped = [k \in 1..(Len(protocols) - obs.tripped) |->
                         protocols[obs.tripped + k].id]
         /\ completeness = "partial"
         /\ \A k \in 1..Len(obs.started) : obs.started[k] < obs.tripped
         /\ Len(tokenless_signals) + Len(tokened_signals) = obs.tripped
    /\ InDetection =>
         /\ elapsed < max_scan_seconds
         /\ rpc_used < max_rpc_calls_per_scan
    /\ chain = "solana" /\ pc = "loop" /\ i > 0 => elapsed < max_scan_seconds

\* C2 witness: an EVM scan whose call budget ran out during the first of
\* three protocols, the clock still within its limit
TruncationWitness ==
    /\ chain = "base" /\ pc = "done"
    /\ obs.tripped = 1
    /\ elapsed < max_scan_seconds
    /\ skipped = <<"p2", "p3">>

\* C3: a failed resolution returns "error", no signals, every catalog id as
\* skipped, and no detection call is ever issued
ResolutionFailureShortCircuit ==
    obs.resolution_failed =>
        /\ pc = "done"
        /\ completeness = "error"
        /\ tokenless_signals = <<>> /\ tokened_signals = <<>>
        /\ skipped = [k \in 1..Len(protocols) |-> protocols[k].id]
        /\ obs.issued = 0
        /\ obs.started = <<>>
        /\ obs.post_lookups = 0
        /\ sol.parsed_txs = <<>>
        /\ det = NoDet /\ hyb = NoHyb

\* C3 witness: the latest block was answered, a probe of the search raised
ResolutionFailureWitness ==
    /\ obs.resolution_failed
    /\ chain = "base"
    /\ search.rpc_calls = 1
    /\ search.search_calls = 1
    /\ Len(skipped) = 3

\* C4 (as claimed): a scan that ends with the call limit or the wall-clock
\* limit reached is "partial", never "full"
BudgetExhaustionIsPartial ==
    (/\ pc = "done"
     /\ ~obs.resolution_failed
     /\ \/ chain = "base" /\ rpc_used >= max_rpc_calls_per_scan
        \/ elapsed >= max_scan_seconds)
    => completeness = "partial"

\* C5 (as claimed): scan_wallet never lets an exception through
ScanNeverRaises == pc # "raised"

\* C6: on EVM a tokened protocol is handed min(remaining calls, 3) and its
\* whole detection sends and reports at most 3 calls; a tokenless protocol
\* is handed all remaining calls
PerProtocolAllocation ==
    /\ chain = "base" /\ InDetection /\ Len(protocols) > 0 =>
         LET remaining == max_rpc_calls_per_scan - rpc_used
         IN /\ protocols[i + 1].has_token =>
                 /\ rpc_budget = (IF remaining < 3 THEN remaining ELSE 3)
                 /\ total_rpc <= 3
                 /\ obs.proto_issued <= 3
            /\ ~protocols[i + 1].has_token => rpc_budget = remaining
    /\ WindowIsResolved =>
         \A k \in 1..Len(obs.attributed) :
            protocols[obs.started[k] + 1].has_token => obs.attributed[k] <= 3

\* C6 witness: a tokened protocol with a hybrid contract stopped after 3
\* calls although more than 3 calls remained in the scan's budget
PerProtocolAllocationWitness ==
    /\ chain = "base" /\ pc = "loop" /\ i = 1
    /\ protocols[1].has_token
    /\ protocols[1].contracts[1].detection_mode = "hybrid"
    /\ obs.attributed = <<3>>
    /\ max_rpc_calls_per_scan - obs.window_calls > 3

\* ------------------------------------------------------------------------
\* The EVM detectors and the hybrid runner, each run by itself
\* ------------------------------------------------------------------------

\* the calls reported so far by the sub-detectors of the hybrid runner that
\* have returned
HybridReported == IF hyb.caller = "none" THEN 0 ELSE SumCalls(hyb.results)

\* C7: a detector's rpc_calls_used is the number of eth_getLogs requests it
\* sent and never exceeds its rpc_budget; the calls the hybrid runner
\* reports are the requests its sub-detectors sent and never exceed its
\* budget
DetectorRespectsBudget ==
    /\ det.mode # "none" =>
         /\ det.result.rpc_calls_used = obs.issued - HybridReported
         /\ det.result.rpc_calls_used <= det.rpc_budget
    /\ hyb.caller # "none" =>
         /\ hyb.used = HybridReported
         /\ hyb.used <= hyb.budget
         /\ obs.issued <= hyb.budget
         /\ pc \in {"hybrid", "returned"} => HybridReported = obs.issued

\* C7 witness: a detector returned having spent its whole budget of 3 with
\* a failed call among them and blocks left unscanned
DetectorBudgetWitness ==
    /\ pc = "returned"
    /\ det.mode = "event_topic"
    /\ det.rpc_budget = 3
    /\ det.result.rpc_calls_used = 3
    /\ obs.issued = 3
    /\ ~det.last.ok
    /\ det.chunk_end >= from_block

\* C7 witness of the hybrid runner: both sub-detectors that exist on EVM ran
\* and the runner stopped with its budget of 4 spent
HybridBudgetWitness ==
    /\ pc = "returned"
    /\ hyb.caller = "harness"
    /\ hyb.budget = 4
    /\ Len(hyb.results) = 2
    /\ hyb.results[1][2] > 0 /\ hyb.results[2][2] > 0
    /\ SumCalls(hyb.results) = 4

\* what a detector has accumulated
Accumulated(d) == <<Fields(d.result), d.all_logs, d.logs1, d.logs2>>

\* C8: a failed eth_getLogs call adds exactly one to rpc_calls_used, leaves
\* what was accumulated unchanged and leaves the detector in the chunk loop
\* of the same signature/token/query; the call after a failed one that left
\* older blocks is for the chunk ending just below the failed chunk, for the
\* same signature/token/query
GracefulDegradation ==
    [][ (pc = "detect" /\ obs'.issued = obs.issued + 1) =>
           /\ pc' = "detect"
           /\ det'.result.rpc_calls_used = det.result.rpc_calls_used + 1
           /\ ~det'.last.ok =>
                 /\ Accumulated(det') = Accumulated(det)
                 /\ det'.q = det.q
                 /\ det'.mode = det.mode
                 /\ det'.at = "chunk"
           /\ (~det.last.ok /\ det.last.chunk_start > from_block) =>
                 /\ det'.last.q = det.last.q
                 /\ det'.last.chunk_end = det.last.chunk_start - 1
                 /\ det'.last.chunk_start
                      = Max(det.last.chunk_start - max_log_block_range,
                            from_block)
      ]_vars

\* C8 witness: the newest chunk answered with two logs, then the call on the
\* chunk below it failed, with older blocks and budget left
GracefulDegradationWitness ==
    /\ pc = "detect"
    /\ det.mode = "event_topic"
    /\ det.result.interacted
    /\ det.result.interaction_count = 2
    /\ det.result.rpc_calls_used = 2
    /\ det.rpc_budget > 2
    /\ ~det.last.ok
    /\ det.last.q = 0
    /\ det.last.chunk_end = 22
    /\ det.chunk_end = 14
    /\ from_block = 6

\* ------------------------------------------------------------------------
\* Further properties of _merge_result
\* ------------------------------------------------------------------------

\* C11: merging a source whose interacted is false leaves every field of
\* the target unchanged, rpc_calls_used included, whatever the source's
\* other fields hold
NonInteractedIsNoOp ==
    mpc = "noop" => target3 = target

\* C11 witness: a non-interacted source that carries a count, types and
\* markers below and above the target's was merged into an interacted target
NonInteractedWitness ==
    /\ mpc = "noop"
    /\ ~extra.interacted
    /\ extra.interaction_count = 5
    /\ target.interacted
    /\ target.first_seen = <<1,0,0>>
    /\ target.last_seen = <<4,0,0>>
    /\ target3.interaction_count = target.interaction_count

\* a marker as _safe_int reads it: its integer if it has one, else itself
MarkerValue(marker) ==
    IF _safe_int(marker) # NoneInt THEN <<0, _safe_int(marker)>>
    ELSE <<1>> \o marker

\* the signal types of a result, without their order
TypeBag(r) ==
    LET types == { r.signal_types[k] : k \in 1..Len(r.signal_types) }
    IN [t \in types |->
          Cardinality({ k \in 1..Len(r.signal_types) : r.signal_types[k] = t })]

\* a result up to the order of its signal types and the spelling of its
\* markers
ValueFields(r) ==
    <<r.interacted, r.interaction_count, TypeBag(r),
      MarkerValue(r.first_seen), MarkerValue(r.last_seen)>>

\* C12 (as claimed): merging the same sources in any order gives the same
\* DetectionResult, signal_types sequence and marker strings included
MergeCommutesExactly ==
    mpc = "permuted" => Fields(target3) = Fields(target)

\* C12 (amended): merging the same sources in any order gives the same
\* interacted, the same interaction_count, the same signal types up to
\* their order, and first_seen/last_seen with the same integer value
MergeCommutesAsValues ==
    mpc = "permuted" => ValueFields(target3) = ValueFields(target)

\* C12 witness: the sources were merged in reverse order; the signal types
\* come out in another order and first_seen with another spelling of 50
MergeCommutesWitness ==
    /\ mpc = "permuted"
    /\ order = [k \in 1..NumSources |-> NumSources + 1 - k]
    /\ target.first_seen = <<0,5,0>>
    /\ target3.first_seen = <<5,0>>
    /\ target.signal_types # target3.signal_types
    /\ target.last_seen = <<4,0,0>>

\* C13 (as claimed): merging the same interacted source a second time
\* leaves the target as it was after the first time
MergeIdempotent ==
    mpc = "twice" => Fields(target4) = Fields(target3)

\* C13 (amended): merging the same interacted source a second time leaves
\* interacted, first_seen and last_seen as they were after the first time;
\* interaction_count grows by the source's count again and the source's
\* signal types are appended again
MergeTwiceKeepsMarkers ==
    mpc = "twice" =>
        /\ target4.interacted = target3.interacted
        /\ target4.first_seen = target3.first_seen
        /\ target4.last_seen = target3.last_seen
        /\ target4.interaction_count
             = target3.interaction_count + extra.interaction_count
        /\ target4.signal_types = target3.signal_types \o extra.signal_types
        /\ target4.rpc_calls_used = target3.rpc_calls_used

\* C13 witness: the source that holds both extremes of the target was
\* merged twice
MergeTwiceWitness ==
    /\ mpc = "twice"
    /\ extra.interaction_count > 0
    /\ extra.first_seen = target3.first_seen
    /\ extra.last_seen = target3.last_seen
    /\ extra.first_seen # None /\ extra.last_seen # None
    /\ target4.interaction_count > target3.interaction_count

\* a marker that is set and reads as an integer
Parses(marker) == Truthy(marker) /\ _safe_int(marker) # NoneInt

\* the invariant of a DetectionResult: first_seen <= last_seen as integers
\* whenever both are set, and interacted whenever interaction_count > 0
ResultInvariant(r) ==
    /\ (Parses(r.first_seen) /\ Parses(r.last_seen))
          => _safe_int(r.first_seen) <= _safe_int(r.last_seen)
    /\ r.interaction_count > 0 => r.interacted

\* a result whose markers are set together, as every detector sets them
MarkersPaired(r) == Parses(r.first_seen) <=> Parses(r.last_seen)

\* every result a merge run has produced so far
MergeOutputs == {target, group, target2, target3, target4}

\* C14 (as claimed): if the target and every source satisfy the invariant,
\* every result of a sequence of merges satisfies it
InvariantPreserved ==
    (/\ mpc # "idle"
     /\ ResultInvariant(target0)
     /\ \A k \in 1..NumSources : ResultInvariant(sources[k]))
    => \A r \in MergeOutputs : ResultInvariant(r)

\* C14 (amended): if the target and every source satisfy the invariant and
\* have their two markers set together or not at all, every result of a
\* sequence of merges satisfies the invariant and has its markers paired
InvariantPreservedWhenPaired ==
    (/\ mpc # "idle"
     /\ ResultInvariant(target0) /\ MarkersPaired(target0)
     /\ \A k \in 1..NumSources :
           ResultInvariant(sources[k]) /\ MarkersPaired(sources[k]))
    => \A r \in MergeOutputs : ResultInvariant(r) /\ MarkersPaired(r)

\* C14 witness: three sources with paired markers were merged into a target
\* with paired markers, both extremes of the target moved, and the run
\* went on to a second merge of one source
InvariantPreservedWitness ==
    /\ mpc = "twice"
    /\ target0.interacted /\ MarkersPaired(target0)
    /\ \A k \in 1..NumSources :
          sources[k].interacted /\ Parses(sources[k].first_seen)
          /\ Parses(sources[k].last_seen)
    /\ target.first_seen = <<0,5,0>>
    /\ target.last_seen = <<4,0,0>>
    /\ target4.interaction_count > 8

\* the results the detectors and the protocol scan hold satisfy the
\* invariant with paired markers
DetectorsEstablishInvariant ==
    /\ ResultInvariant(det.result) /\ MarkersPaired(det.result)
    /\ ResultInvariant(merged) /\ MarkersPaired(merged)
    /\ \A k \in 1..Len(hyb.results) :
          ResultInvariant(hyb.results[k][1]) /\ MarkersPaired(hyb.results[k][1])

\* ------------------------------------------------------------------------
\* Two scans of one process
\* ------------------------------------------------------------------------

\* the second of two EVM scans has returned and the wall-clock limit
\* tripped in neither
BothReturnedInTime ==
    /\ obs.round = 2 /\ pc = "done"
    /\ obs.first.elapsed < max_scan_seconds
    /\ elapsed < max_scan_seconds

\* the second scan returned what the first returned
SameOutcome ==
    completeness = obs.first.completeness /\ skipped = obs.first.skipped

\* C15 (as claimed): two EVM scans with the same arguments and the same
\* answers of the chain return the same completeness and skipped list,
\* whatever the block-timestamp memo holds
MemoIndependent ==
    BothReturnedInTime => SameOutcome

\* C15 (amended): they return the same completeness and skipped list when
\* window resolution was charged the same number of calls in both, that
\* is when the memo held the same probed blocks
SameWindowCallsSameOutcome ==
    (BothReturnedInTime /\ obs.window_calls = obs.first.window_calls)
        => SameOutcome

\* C15 witness: both scans found the probed block in the memo, were
\* charged one call for the window, and stopped at the second protocol
SameOutcomeWitness ==
    /\ BothReturnedInTime
    /\ obs.window_calls = 1 /\ obs.first.window_calls = 1
    /\ search.it > 0
    /\ obs.tripped = 1
    /\ completeness = "partial"
    /\ obs.first.completeness = "partial"
    /\ skipped = <<"s2">>

\* ------------------------------------------------------------------------
\* The Solana path
\* ------------------------------------------------------------------------

\* the signatures fetched that have no parsed transaction
Unparsed == sol.sig_ids - Len(sol.parsed_txs)

\* C16: a Solana scan in which at least half of the fetched signatures have
\* no parsed transaction after the batch parse and the fallback completes
\* with completeness "partial"
ParseDegradationIsPartial ==
    (/\ pc = "done" /\ chain = "solana"
     /\ ~obs.resolution_failed
     /\ sol.sig_ids > 0
     /\ 2 * Unparsed >= sol.sig_ids)
        => completeness = "partial"

RECURSIVE SignalsOver(_, _, _)
\* the tokened (tokened = TRUE) or tokenless signals of the protocols ps,
\* each detected over the transactions txs
SignalsOver(ps, tokened, txs) ==
    IF Len(ps) = 0 THEN <<>>
    ELSE (IF Head(ps).has_token = tokened
          THEN LET result == DetectAll(DetectionResult, Head(ps).contracts, txs)
               IN <<IF tokened
                    THEN _build_tokened_signal(Head(ps), result)
                    ELSE _build_tokenless_signal(Head(ps), result)>>
          ELSE <<>>)
         \o SignalsOver(Tail(ps), tokened, txs)

\* a Solana scan is in or just after its loop over the protocols
InSolanaLoop == chain = "solana" /\ pc \in {"loop", "post"}

\* C17: in and after the Solana protocol loop the signatures have been
\* fetched once and parsed once, no call has been charged or counted, the
\* loop stops early only when the wall clock has run out, and the signals
\* of the protocols handled so far are all detected over the one parsed set
SolanaPathOrdering ==
    InSolanaLoop =>
        /\ obs.sig_fetches = 1 /\ obs.parse_runs = 1
        /\ obs.issued = 0 /\ rpc_used = 0
        /\ obs.tripped # NoneInt => elapsed >= max_scan_seconds
        /\ tokenless_signals =
              SignalsOver(SubSeq(protocols, 1, i), FALSE, sol.parsed_txs)
        /\ tokened_signals =
              SignalsOver(SubSeq(protocols, 1, i), TRUE, sol.parsed_txs)

\* C17 witness: the loop has handled three protocols over two parsed
\* transactions and the last two protocols both found some of them
SolanaPathWitness ==
    /\ InSolanaLoop /\ pc = "post"
    /\ i = 3
    /\ Len(sol.parsed_txs) = 2
    /\ tokened_signals[1].interacted
    /\ tokenless_signals[2].interaction_count > 0

\* ------------------------------------------------------------------------
\* Scoring
\* ------------------------------------------------------------------------

\* a date argument that is present: it names a day
Present(date) == Truthy(date) /\ date # BadDate

\* the day a present date names
DayOf(date) == date[1]

\* the points the classification rule gives per component
CountPts(count) ==
    IF count < 2 THEN 0
    ELSE IF count <= 4 THEN 1
    ELSE IF count <= 9 THEN 2
    ELSE 3

DiversityPts(types) ==
    Min(3, Cardinality(TypeSet(types) \ {"unknown_interaction"}))

RecencyPts(last_seen) ==
    IF ~Present(last_seen) THEN 0
    ELSE IF NowDay - DayOf(last_seen) <= 7 THEN 3
    ELSE IF NowDay - DayOf(last_seen) <= 30 THEN 2
    ELSE IF NowDay - DayOf(last_seen) <= 90 THEN 1
    ELSE 0

DurationPts(first_seen, last_seen) ==
    IF /\ Present(first_seen) /\ Present(last_seen)
       /\ DayOf(last_seen) - DayOf(first_seen) >= 30
    THEN 1 ELSE 0

RawScore(sc) ==
    CountPts(sc.count) + DiversityPts(sc.types) + RecencyPts(sc.last_seen)
    + DurationPts(sc.first_seen, sc.last_seen)

\* the band of raw * weight, the weight a fraction
Band(raw, weight) ==
    IF raw * weight[1] >= 7 * weight[2] THEN "strong"
    ELSE IF raw * weight[1] >= 4 * weight[2] THEN "moderate"
    ELSE IF raw * weight[1] >= 1 * weight[2] THEN "weak"
    ELSE "none"

\* C18: calculate_strength returns "none" for count 0 and otherwise the
\* band of (count points + diversity points + recency points + duration
\* point) * weight, the bands including their lower bounds 7, 4 and 1
StrengthClassification ==
    score.at = "returned" =>
        score.strength = IF score.count = 0 THEN "none"
                         ELSE Band(RawScore(score), score.protocol_weight)

\* C18 witness: the two worked cases: count 15, three types, a span of 73
\* days, last seen today, weight 1: raw 10, strong
StrengthWitness ==
    /\ score.at = "returned"
    /\ score.count = 15
    /\ score.types = <<"swap", "supply", "borrow">>
    /\ score.first_seen = DateString(NowDay - 73)
    /\ score.last_seen = DateString(NowDay)
    /\ score.protocol_weight = <<1, 1>>
    /\ RawScore(score) = 10
    /\ score.strength = "strong"

\* count 5, one type, no first_seen, last seen today, weight 1: raw 6,
\* moderate
StrengthWitnessModerate ==
    /\ score.at = "returned"
    /\ score.count = 5
    /\ score.types = <<"swap">>
    /\ score.first_seen = None
    /\ score.last_seen = DateString(NowDay)
    /\ score.protocol_weight = <<1, 1>>
    /\ RawScore(score) = 6
    /\ score.strength = "moderate"

\* a raw score exactly on a lower bound: 7 * 1 is strong, 10 * 7/10 is
\* strong, 8 * 1/2 is moderate
StrengthWitnessBoundary ==
    /\ score.at = "returned"
    /\ RawScore(score) = 8
    /\ score.protocol_weight = <<1, 2>>
    /\ score.strength = "moderate"

\* none < weak < moderate < strong
Rank(strength) ==
    CASE strength = "none" -> 0
      [] strength = "weak" -> 1
      [] strength = "moderate" -> 2
      [] strength = "strong" -> 3

\* C19: with the types, the dates, now and a weight >= 0 fixed, a larger
\* count (from a count of at least 1) never gives a lower strength
ScoringMonotone ==
    (/\ score.at = "again"
     /\ score.protocol_weight[1] >= 0
     /\ score.count >= 1)
        => Rank(score.strength) <= Rank(score.strength2)

\* C19 witness: the count went from 4 to 5 and the strength rose from weak
\* to moderate
ScoringMonotoneWitness ==
    /\ score.at = "again"
    /\ score.protocol_weight[1] > 0
    /\ score.count = 4 /\ score.count2 = 5
    /\ score.strength = "weak" /\ score.strength2 = "moderate"

\* the generic markers of an interaction of unknown type: the one the
\* scoring names and the one ProgramIdMatch assigns
UnknownMarkers == {"unknown_interaction", "unknown"}

\* C20: a signal whose types are all generic unknown markers gets no
\* diversity points
UnknownGetsNoDiversity ==
    (/\ score.at = "returned"
     /\ score.count > 0
     /\ score.types # <<>>
     /\ TypeSet(score.types) \subseteq UnknownMarkers)
        => DiversityPoints(score.types) = 0

\* ------------------------------------------------------------------------
\* The wall clock in a catalog of five
\* ------------------------------------------------------------------------

\* an EVM scan of five protocols has returned and the last reading of the
\* clock was at or past the limit
FiveTimedOut ==
    /\ chain = "base" /\ pc = "done"
    /\ Len(protocols) = 5
    /\ elapsed >= max_scan_seconds

\* the protocols whose detection ran, by index
Started == { obs.started[k] : k \in 1..Len(obs.started) }

\* C24 (as claimed): when the clock reaches the limit while the protocol of
\* index 2 is the one running (its check read a time below the limit, the
\* next reading is at or past it), the scan returns the ids of catalog[2:5]
\* as skipped and completeness "partial"
TimeoutWhileRunningSkipsRunning ==
    (FiveTimedOut /\ 2 \in Started /\ 3 \notin Started)
        => skipped = SkippedFrom(protocols, 2) /\ completeness = "partial"

\* C24 (amended): when the check at the head of the round of index 2 is
\* the first to read a time at or past the limit (the limit was reached
\* while index 1 ran or before index 2 began), the scan returns the ids of
\* catalog[2:5] as skipped, completeness "partial", and the signals of
\* indices 0 and 1 only
TimeoutAtCheckSkipsFromThere ==
    (FiveTimedOut /\ obs.tripped = 2)
        => /\ skipped = SkippedFrom(protocols, 2)
           /\ skipped = <<"w3", "w4", "w5">>
           /\ completeness = "partial"
           /\ Started = {0, 1}
           /\ Len(tokenless_signals) + Len(tokened_signals) = 2

\* C24 witness: such a scan returned
TimeoutAtCheckWitness ==
    /\ FiveTimedOut /\ obs.tripped = 2
    /\ rpc_used < max_rpc_calls_per_scan
    /\ tokenless_signals[1].protocol_id = "w1"
    /\ tokened_signals[1].protocol_id = "w2"

\* ------------------------------------------------------------------------
\* All requests of a scan
\* ------------------------------------------------------------------------

\* the JSON-RPC requests an EVM scan has sent: those of window resolution,
\* the eth_getLogs queries, and the block-timestamp lookups after the loop
RequestsSent == obs.window_calls + obs.issued + obs.post_lookups

\* C25: an EVM scan whose window resolution stayed within
\* max_rpc_calls_per_scan has sent at most max_rpc_calls_per_scan requests
\* when it returns
RequestsWithinLimit ==
    (/\ chain = "base" /\ pc = "done"
     /\ obs.window_calls <= max_rpc_calls_per_scan)
        => RequestsSent <= max_rpc_calls_per_scan

\* ------------------------------------------------------------------------
\* The protocols of the catalog in what a scan returns
\* ------------------------------------------------------------------------

\* [s.protocol_id for s in signals]
SignalIds(signals) == [k \in 1..Len(signals) |-> signals[k].protocol_id]

\* how often x occurs in the list
Occurrences(list, x) == Cardinality({ k \in 1..Len(list) : list[k] = x })

\* the protocols of the catalog that are not reported skipped, in catalog
\* order
Processed ==
    SelectSeq(protocols, LAMBDA p : Occurrences(skipped, p.id) = 0)

\* C29: when a scan returns, every protocol id of the catalog occurs
\* exactly once in the tokenless signals, the tokened signals and the
\* skipped ids taken together; the tokenless signals are those of the
\* processed protocols without a token and the tokened signals those of the
\* processed protocols with one, each in catalog order; an "error" result
\* has no signals, and a "full" result has nothing skipped
ProtocolPartition ==
    pc = "done" =>
        LET all == SignalIds(tokenless_signals) \o SignalIds(tokened_signals)
                   \o skipped
        IN /\ Len(all) = Len(protocols)
           /\ \A k \in 1..Len(protocols) : Occurrences(all, protocols[k].id) = 1
           /\ SignalIds(tokenless_signals)
                = Ids(SelectSeq(Processed, LAMBDA p : ~p.has_token))
           /\ SignalIds(tokened_signals)
                = Ids(SelectSeq(Processed, LAMBDA p : p.has_token))
           /\ completeness = "error"
                => tokenless_signals = <<>> /\ tokened_signals = <<>>
           /\ completeness = "full" => skipped = <<>>

\* C29 witness: a returned scan of five protocols with two tokenless
\* signals, one tokened signal and two protocols skipped
ProtocolPartitionWitness ==
    /\ pc = "done"
    /\ SignalIds(tokenless_signals) = <<"w1", "w3">>
    /\ SignalIds(tokened_signals) = <<"w2">>
    /\ skipped = <<"w4", "w5">>

\* ---- the chunk walk of the EVM detectors ----------------------------------

\* a detector, or the hybrid runner, by itself, and it keeps running: a
\* coroutine that is awaited is resumed until it returns
SpecDetectFair == SpecDetect /\ WF_vars(NextDetect)

\* the eth_getLogs ranges the running detector queried for its q-th
\* signature, token or query, in the order of the calls
RangesOf(q) == SelectSeq(det.ranges, LAMBDA r : r[1] = q)

\* the blocks of one queried range
BlocksOf(r) == r[2]..r[3]

\* the q-th walk ended and left budget
WalkedWithinBudget(q) ==
    q < det.q /\ det.result.rpc_calls_used < det.rpc_budget

ChunkWalkShape ==
    det.mode # "none" =>
      /\ from_block > to_block => det.ranges = <<>>
      /\ \A q \in 0..2 :
           LET rs == RangesOf(q)
           IN /\ Len(rs) > 0 =>
                   /\ rs[1][3] = to_block
                   /\ rs[1][2] = Max(to_block - max_log_block_range + 1,
                                     from_block)
              /\ \A k \in 2..Len(rs) : rs[k][3] = rs[k - 1][2] - 1
              /\ \A k \in 1..Len(rs) :
                   /\ rs[k][2] >= from_block
                   /\ rs[k][2] <= rs[k][3]
                   /\ rs[k][3] - rs[k][2] + 1 <= max_log_block_range
              /\ \A j, k \in 1..Len(rs) :
                   j # k => BlocksOf(rs[j]) \cap BlocksOf(rs[k]) = {}
              /\ WalkedWithinBudget(q) =>
                   /\ UNION {BlocksOf(rs[k]) : k \in 1..Len(rs)}
                        = from_block..to_block
                   /\ Len(rs) > 0 => rs[Len(rs)][2] = from_block

\* C30: every EVM detector walks the window downward from to_block: per
\* signature, token or query the first range is
\* [max(to_block - size + 1, from_block), to_block], each next range ends one
\* block below the start of the one before, the ranges are disjoint, at most
\* max_log_block_range wide and never below from_block, a walk that ended
\* with budget left covers [from_block, to_block] exactly with its oldest
\* range starting at from_block, an empty window gets no call, and the
\* detector returns
ChunkWalk == []ChunkWalkShape /\ <>(pc = "returned")

\* C30 witness: a detector returned with budget left after a walk of three
\* or more chunks whose oldest chunk was clipped to from_block
ChunkWalkWitness ==
    /\ pc = "returned"
    /\ det.mode # "none"
    /\ WalkedWithinBudget(0)
    /\ LET rs == RangesOf(0)
       IN /\ Len(rs) >= 3
          /\ rs[Len(rs)][2] = from_block
          /\ rs[Len(rs)][3] - rs[Len(rs)][2] + 1 < max_log_block_range

\* ------------------------------------------------------------------------
\* build_summary, generate_next_actions (app/services/scoring.py)
\* ------------------------------------------------------------------------

\* the fields of CategoryCoverage, in the order model_dump lists them
Categories ==
    <<"dex", "lending", "bridge", "nft", "social", "governance", "yield",
      "perps", "liquid_staking", "oracle">>

\* [s for s in signals if s.interacted]
InteractedOf(signals) == SelectSeq(signals, LAMBDA s : s.interacted)

\* {s.category for s in signals}
CategoriesOf(signals) == { signals[k].category : k \in 1..Len(signals) }

\* max(0.0, 1.0 - ((now - parsed).days / 180.0)) if parsed else 0.0, in
\* 180ths
RecencyValue(s) ==
    LET parsed == _parse_date(s.last_seen)
    IN IF parsed # NoneInt THEN Max(0, 180 - (NowDay - parsed)) ELSE 0

RECURSIVE SumRecency(_)
\* sum(recency_values), in 180ths
SumRecency(signals) ==
    IF Len(signals) = 0 THEN 0
    ELSE RecencyValue(Head(signals)) + SumRecency(Tail(signals))

\* round(num / den, 2) >= hundredths / 100: the quotient is above the half
\* below the threshold. On the half itself (0.295, 0.495) the nearest double
\* lies below it and is rounded down
RoundedAtLeast(num, den, hundredths) ==
    200 * num > (2 * hundredths - 1) * den

\* _build_coverage(interacted_signals)
_build_coverage(interacted_signals) ==
    [c \in { Categories[k] : k \in 1..Len(Categories) } |->
        c \in CategoriesOf(interacted_signals)]

\* build_summary(tokenless_signals, tokened_signals): recency and diversity
\* are the fractions that recency_score and diversity_score round to two
\* places
build_summary(tokenless, tokened) ==
    LET all_signals == tokenless \o tokened
        tokenless_interacted == InteractedOf(tokenless)
        all_interacted == InteractedOf(all_signals)
        tc == Len(tokenless_interacted)
        recency == IF tc > 0
                   THEN <<SumRecency(tokenless_interacted), 180 * tc>>
                   ELSE <<0, 1>>
        all_categories == CategoriesOf(all_signals)
        interacted_categories == CategoriesOf(all_interacted)
        diversity == <<Cardinality(interacted_categories),
                       Max(Cardinality(all_categories), 1)>>
    IN [tokenless_protocols_interacted |-> tc,
        tokenless_protocols_available |-> Len(tokenless),
        total_protocols_scanned |-> Len(all_signals),
        recency |-> recency,
        diversity |-> diversity,
        overall_likelihood |->
            IF /\ tc >= 5
               /\ RoundedAtLeast(recency[1], recency[2], 50)
               /\ RoundedAtLeast(diversity[1], diversity[2], 50)
            THEN "high"
            ELSE IF /\ tc >= 2
                    /\ \/ RoundedAtLeast(recency[1], recency[2], 30)
                       \/ RoundedAtLeast(diversity[1], diversity[2], 30)
            THEN "medium"
            ELSE IF tc >= 1 THEN "low"
            ELSE "minimal",
        category_coverage |-> _build_coverage(all_interacted)]

\* protocol weights are fractions with a positive denominator
WeightLess(a, b) == a[1] * b[2] < b[1] * a[2]

RECURSIVE SortedByWeight_TiesReversed(_)
\* a slip: sorted ascending and then reversed, which turns ties around
SortedByWeight_TiesReversed(signals) ==
    IF Len(signals) = 0 THEN <<>>
    ELSE LET x == Head(signals)
             rest == SortedByWeight_TiesReversed(Tail(signals))
             ahead == SelectSeq(rest,
                          LAMBDA y : ~WeightLess(y.protocol_weight,
                                                 x.protocol_weight))
             behind == SelectSeq(rest,
                          LAMBDA y : WeightLess(y.protocol_weight,
                                                x.protocol_weight))
         IN ahead \o <<x>> \o behind

RECURSIVE SortedByWeight(_)
\* sorted(signals, key=lambda s: s.protocol_weight, reverse=True): a stable
\* sort, equal weights stay in the order of the input
SortedByWeight(signals) ==
    IF Len(signals) = 0 THEN <<>>
    ELSE LET x == signals[Len(signals)]
             rest == SortedByWeight(SubSeq(signals, 1, Len(signals) - 1))
             ahead == SelectSeq(rest,
                          LAMBDA y : ~WeightLess(y.protocol_weight,
                                                 x.protocol_weight))
             behind == SelectSeq(rest,
                          LAMBDA y : WeightLess(y.protocol_weight,
                                                x.protocol_weight))
         IN ahead \o <<x>> \o behind

\* [c.protocol_name for c in candidates[:2]]
SuggestedProtocols(candidates) ==
    [k \in 1..Min(2, Len(candidates)) |-> candidates[k].protocol_name]

RECURSIVE ActionsFrom(_, _, _, _)
\* generate_next_actions: for category, covered in coverage_dict.items(),
\* from the k-th category on
ActionsFrom(k, coverage, tokenless, chain_name) ==
    IF k > Len(Categories) THEN <<>>
    ELSE LET category == Categories[k]
             candidates ==
                 SortedByWeight(SelectSeq(tokenless,
                     LAMBDA s : s.category = category /\ ~s.interacted))
             rest == ActionsFrom(k + 1, coverage, tokenless, chain_name)
         IN IF coverage[category] \/ Len(candidates) = 0 THEN rest
            ELSE <<[category |-> category, chain |-> chain_name,
                    suggested_protocols |-> SuggestedProtocols(candidates)]>>
                 \o rest

\* generate_next_actions(summary, tokenless_signals, chain): actions[:3]
generate_next_actions(s, tokenless, chain_name) ==
    LET actions == ActionsFrom(1, s.category_coverage, tokenless, chain_name)
    IN SubSeq(actions, 1, Min(3, Len(actions)))

\* the categories of the tokenless signals p1..p6
CategoryPatterns ==
    { <<"dex", "lending", "bridge", "nft", "social", "dex">>,
      <<"dex", "dex", "dex", "dex", "dex", "dex">>,
      <<"oracle", "perps", "lending", "lending", "lending", "yield">>,
      <<"governance", "yield", "perps", "liquid_staking", "oracle",
        "social">> }

\* their last_seen: today, around the half below 0.5 and below 0.3, and
\* missing, unreadable, old and coming dates
LastSeenPatterns ==
    { [k \in 1..6 |-> DateString(NowDay)],
      <<DateString(NowDay - 90), DateString(NowDay - 90),
        DateString(NowDay - 90), DateString(NowDay - 91),
        DateString(NowDay - 91), DateString(NowDay - 200)>>,
      <<DateString(NowDay - 126), DateString(NowDay - 127),
        DateString(NowDay - 126), DateString(NowDay - 127),
        DateString(NowDay - 200), DateString(NowDay)>>,
      <<None, BadDate, None, DateString(NowDay), DateString(NowDay - 400),
        DateString(NowDay + 10)>> }

\* their protocol weights
WeightPatterns ==
    { [k \in 1..6 |-> <<1, 1>>],
      <<<<1, 2>>, <<6, 5>>, <<1, 1>>, <<6, 5>>, <<1, 1>>, <<7, 10>>>> }

\* the ids and names of the tokenless signals
SummaryIds == <<"p1", "p2", "p3", "p4", "p5", "p6">>

\* how many tokenless signals the scan returned
TokenlessLengths == {0, 3, Len(SummaryIds)}

TokenedSignal(protocol_id, category, interacted) ==
    [protocol_id |-> protocol_id, category |-> category,
     interacted |-> interacted]

\* the tokened signals of a scan
TokenedLists ==
    { <<>>,
      <<TokenedSignal("t1", "lending", TRUE)>>,
      <<TokenedSignal("t1", "bridge", FALSE),
        TokenedSignal("t2", "nft", FALSE),
        TokenedSignal("t3", "social", FALSE)>>,
      <<TokenedSignal("t1", "perps", TRUE),
        TokenedSignal("t2", "oracle", FALSE)>> }

\* the route has the two signal lists of a scan
SummaryCalled ==
    \E n \in TokenlessLengths, categories \in CategoryPatterns,
       last_seen \in LastSeenPatterns, weights \in WeightPatterns,
       hit \in SUBSET (1..Len(SummaryIds)), tokened \in TokenedLists :
        /\ hit \subseteq 1..n
        /\ summary =
             [NoSummary EXCEPT
                !.at = "called",
                !.tokenless_signals =
                    [k \in 1..n |->
                        [protocol_id |-> SummaryIds[k],
                         protocol_name |-> SummaryIds[k],
                         category |-> categories[k],
                         protocol_weight |-> weights[k],
                         interacted |-> k \in hit,
                         last_seen |-> IF k \in hit THEN last_seen[k]
                                       ELSE None]],
                !.tokened_signals = tokened]

\* summary = build_summary(tokenless_signals, tokened_signals)
BuildSummary ==
    /\ summary.at = "called"
    /\ summary' =
         [at |-> "summarized",
          tokenless_signals |-> summary.tokenless_signals,
          tokened_signals |-> summary.tokened_signals,
          chain |-> summary.chain,
          summary |-> build_summary(summary.tokenless_signals,
                                    summary.tokened_signals)]
    /\ UNCHANGED <<mergeVars, scanOnly, unitVars, score, serviceVars>>

\* next_actions = generate_next_actions(summary, tokenless_signals, chain)
GenerateNextActions ==
    /\ summary.at = "summarized"
    /\ \E chain_name \in {"base", "solana"} :
         summary' =
           [at |-> "suggested",
            tokenless_signals |-> summary.tokenless_signals,
            tokened_signals |-> summary.tokened_signals,
            chain |-> chain_name,
            summary |-> summary.summary,
            next_actions |-> generate_next_actions(summary.summary,
                                 summary.tokenless_signals, chain_name)]
    /\ UNCHANGED <<mergeVars, scanOnly, unitVars, score, serviceVars>>

\* build_summary is called once more with the same tokenless signals and
\* other tokened signals
BuildSummaryAgain ==
    /\ summary.at = "suggested"
    /\ \E tokened \in TokenedLists :
         /\ tokened # summary.tokened_signals
         /\ summary' =
              [at |-> "again",
               tokenless_signals |-> summary.tokenless_signals,
               tokened_signals |-> summary.tokened_signals,
               chain |-> summary.chain,
               summary |-> summary.summary,
               next_actions |-> summary.next_actions,
               tokened_signals2 |-> tokened,
               summary2 |-> build_summary(summary.tokenless_signals,
                                          tokened)]
    /\ UNCHANGED <<mergeVars, scanOnly, unitVars, score, serviceVars>>

NextSummary == BuildSummary \/ GenerateNextActions \/ BuildSummaryAgain

InitSummary ==
    /\ SummaryCalled /\ ScanIdle /\ MergeIdle /\ ScoreIdle
    /\ scan_cache = NoCache /\ route = NoRoute /\ extract = NoExtract
    /\ UnitsIdle

\* the summary and the suggestions of one scan
SpecSummary == InitSummary /\ [][NextSummary]_vars

\* the places of the interacted signals in a list
InteractedAt(signals) == { k \in 1..Len(signals) : signals[k].interacted }

\* days since the last_seen of a signal, NoneInt when it has none
DaysSinceLastSeen(s) ==
    IF s.last_seen = None \/ s.last_seen = BadDate THEN NoneInt
    ELSE NowDay - s.last_seen[1]

RECURSIVE RecencySum(_, _)
\* the sum over the places ks of max(0, 1 - daysSinceLastSeen/180), in
\* 180ths; a missing last_seen counts 0
RecencySum(signals, ks) ==
    IF ks = {} THEN 0
    ELSE LET k == CHOOSE x \in ks : TRUE
             days == DaysSinceLastSeen(signals[k])
         IN (IF days = NoneInt THEN 0 ELSE Max(0, 180 - days))
            + RecencySum(signals, ks \ {k})

\* the likelihood the bands give to tc interacted tokenless signals with
\* recency rn/rd and diversity dn/dd
BandOf(tc, rn, rd, dn, dd) ==
    IF tc >= 5 /\ 2 * rn >= rd /\ 2 * dn >= dd THEN "high"
    ELSE IF tc >= 2 /\ (10 * rn >= 3 * rd \/ 10 * dn >= 3 * dd) THEN "medium"
    ELSE IF tc >= 1 THEN "low"
    ELSE "minimal"

\* C21: with tc the number of interacted tokenless signals, recency the mean
\* over them of max(0, 1 - daysSinceLastSeen/180) and diversity the share of
\* the categories of all signals that have an interacted signal, the
\* likelihood is high iff tc >= 5, recency >= 0.5 and diversity >= 0.5, else
\* medium iff tc >= 2 and recency >= 0.3 or diversity >= 0.3, else low iff
\* tc >= 1, else minimal; and diversity lies within [0, 1]
LikelihoodBands ==
    summary.at = "summarized" =>
      LET tokenless == summary.tokenless_signals
          all_signals == tokenless \o summary.tokened_signals
          hit == InteractedAt(tokenless)
          tc == Cardinality(hit)
          rn == RecencySum(tokenless, hit)
          rd == IF tc = 0 THEN 1 ELSE 180 * tc
          cats == { all_signals[k].category : k \in 1..Len(all_signals) }
          dn == Cardinality({ all_signals[k].category :
                                k \in InteractedAt(all_signals) })
          dd == IF cats = {} THEN 1 ELSE Cardinality(cats)
      IN /\ summary.summary.overall_likelihood = BandOf(tc, rn, rd, dn, dd)
         /\ 0 <= summary.summary.diversity[1]
         /\ summary.summary.diversity[1] <= summary.summary.diversity[2]

\* C22: whatever the tokened signals are, the same tokenless signals get the
\* same overall likelihood
TokenedNeverMoveLikelihood ==
    summary.at = "again" =>
        summary.summary2.overall_likelihood
            = summary.summary.overall_likelihood

\* the places of the ten categories that no interacted signal covers and
\* that have a tokenless signal not interacted with
OpenCategories ==
    LET all_signals == summary.tokenless_signals \o summary.tokened_signals
    IN { c \in 1..Len(Categories) :
           /\ \A k \in InteractedAt(all_signals) :
                all_signals[k].category # Categories[c]
           /\ \E k \in 1..Len(summary.tokenless_signals) :
                /\ summary.tokenless_signals[k].category = Categories[c]
                /\ ~summary.tokenless_signals[k].interacted }

\* the j-th smallest member of a set of numbers
NthOf(set, j) == CHOOSE x \in set : Cardinality({ y \in set : y < x }) = j - 1

\* the place, among the places ks of the tokenless signals, of the heaviest
\* signal, the earliest of them when several are as heavy
Heaviest(ks) ==
    CHOOSE k \in ks : \A m \in ks :
        LET wk == summary.tokenless_signals[k].protocol_weight
            wm == summary.tokenless_signals[m].protocol_weight
        IN \/ wm[1] * wk[2] < wk[1] * wm[2]
           \/ wm[1] * wk[2] = wk[1] * wm[2] /\ k <= m

\* C23: the suggestions are one for each of the first three categories, in
\* the order dex, lending, bridge, nft, social, governance, yield, perps,
\* liquid_staking, oracle, that no interacted signal covers and that have a
\* tokenless signal not interacted with; each names the chain and the one or
\* two heaviest such signals of its category, equal weights in input order
NextActionsRule ==
    summary.at = "suggested" =>
      LET actions == summary.next_actions
          tokenless == summary.tokenless_signals
      IN /\ Len(actions) = Min(3, Cardinality(OpenCategories))
         /\ \A j \in 1..Len(actions) :
              LET category == Categories[NthOf(OpenCategories, j)]
                  ks == { k \in 1..Len(tokenless) :
                            /\ tokenless[k].category = category
                            /\ ~tokenless[k].interacted }
                  first == Heaviest(ks)
                  names == actions[j].suggested_protocols
              IN /\ actions[j].category = category
                 /\ actions[j].chain = summary.chain
                 /\ Len(names) = Min(2, Cardinality(ks))
                 /\ names[1] = tokenless[first].protocol_name
                 /\ Len(names) = 2 =>
                      names[2] = tokenless[Heaviest(ks \ {first})]
                                    .protocol_name

\* C23 witness: four categories are open, and the three suggestions are
\* lending with p4 (6/5) before p3 (1), p5 (1) left out, then yield, then
\* perps; oracle gets none
NextActionsWitness ==
    /\ summary.at = "suggested"
    /\ Cardinality(OpenCategories) = 4
    /\ summary.next_actions =
         << [category |-> "lending", chain |-> "base",
             suggested_protocols |-> <<"p4", "p3">>],
            [category |-> "yield", chain |-> "base",
             suggested_protocols |-> <<"p6">>],
            [category |-> "perps", chain |-> "base",
             suggested_protocols |-> <<"p2">>] >>

\* ------------------------------------------------------------------------
\* extract_param (app/utils/params.py)
\* ------------------------------------------------------------------------

\* A request body is its top-level items other than "body" (top), what its
\* "body" item is ("absent", "not_dict" or "dict"), and the items of that
\* nested dict (nested).

\* name in request_body
InBody(request_body, name) ==
    IF name = "body" THEN request_body.body # "absent"
    ELSE name \in DOMAIN request_body.top

\* "body" in request_body and isinstance(request_body["body"], dict) and
\* name in request_body["body"]
InNested(request_body, name) ==
    /\ request_body.body = "dict"
    /\ name \in DOMAIN request_body.nested

RECURSIVE ExtractFrom(_, _)
\* for name in all_names: ...; return None
ExtractFrom(request_body, all_names) ==
    IF Len(all_names) = 0 THEN None
    ELSE LET name == Head(all_names)
         IN IF InBody(request_body, name) THEN request_body.top[name]
            ELSE IF InNested(request_body, name)
            THEN request_body.nested[name]
            ELSE ExtractFrom(request_body, Tail(all_names))

\* extract_param(request_body, param_name, aliases)
extract_param(request_body, param_name, aliases) ==
    ExtractFrom(request_body, <<param_name>> \o aliases)

\* the keys a request body may have, and the value each one carries at the
\* top level and in the nested dict when it is not None
TopKeys == {"address", "wallet", "addr", "query"}

NestedKeys == {"address", "wallet", "query"}

TopValue(key) ==
    CASE key = "address" -> <<1>> [] key = "wallet" -> <<2>>
      [] key = "addr" -> <<3>> [] OTHER -> <<4>>

NestedValue(key) ==
    CASE key = "address" -> <<11>> [] key = "wallet" -> <<12>>
      [] OTHER -> <<14>>

\* the request bodies extract_param is called on
RequestBodies ==
    { [top |-> top, body |-> kind, nested |-> nested] :
        top \in UNION { [keys -> {"value", "none"}] : keys \in SUBSET TopKeys },
        kind \in {"absent", "not_dict", "dict"},
        nested \in UNION { [keys -> {"value", "none"}] :
                             keys \in SUBSET NestedKeys } }

\* the items of a request body with their values
WithValues(b) ==
    [top |-> [k \in DOMAIN b.top |->
                 IF b.top[k] = "value" THEN TopValue(k) ELSE None],
     body |-> b.body,
     nested |-> [k \in DOMAIN b.nested |->
                    IF b.nested[k] = "value" THEN NestedValue(k) ELSE None]]

\* extract_param is called for "address"
ExtractCalled ==
    \E b \in RequestBodies, aliases \in {<<>>, <<"wallet", "addr">>} :
        /\ b.body # "dict" => DOMAIN b.nested = {}
        /\ extract = [at |-> "called", request_body |-> WithValues(b),
                      param_name |-> "address", aliases |-> aliases]

\* extract_param returns
ExtractParam ==
    /\ extract.at = "called"
    /\ extract' = [at |-> "returned",
                   request_body |-> extract.request_body,
                   param_name |-> extract.param_name,
                   aliases |-> extract.aliases,
                   result |-> extract_param(extract.request_body,
                                  extract.param_name, extract.aliases)]
    /\ UNCHANGED <<mergeVars, scanOnly, unitVars, score, summary, scan_cache, route>>

NextExtract == ExtractParam

InitExtract ==
    /\ ExtractCalled /\ ScanIdle /\ MergeIdle /\ ScoreIdle
    /\ summary = NoSummary /\ scan_cache = NoCache /\ route = NoRoute
    /\ UnitsIdle

\* one call of extract_param
SpecExtract == InitExtract /\ [][NextExtract]_vars

\* the names of a call that the body has, at the top level or nested
FoundAt(e) ==
    LET all_names == <<e.param_name>> \o e.aliases
    IN { n \in 1..Len(all_names) :
           \/ all_names[n] \in DOMAIN e.request_body.top
           \/ /\ e.request_body.body = "dict"
              /\ all_names[n] \in DOMAIN e.request_body.nested }

\* C28: the names are tried in the order param_name, aliases; for a name the
\* top-level item wins over the item of the nested body; the first item
\* found is returned even when it is None; and when no name is found the
\* value of the "query" item is returned
ExtractOrderAndFallback ==
    extract.at = "returned" =>
      LET all_names == <<extract.param_name>> \o extract.aliases
          found == FoundAt(extract)
          b == extract.request_body
      IN IF found # {}
         THEN LET name == all_names[CHOOSE n \in found :
                                       \A m \in found : n <= m]
              IN extract.result = IF name \in DOMAIN b.top THEN b.top[name]
                                  ELSE b.nested[name]
         ELSE extract.result = IF "query" \in DOMAIN b.top
                               THEN b.top["query"] ELSE None

\* ------------------------------------------------------------------------
\* TTLCache (app/services/cache.py)
\* ------------------------------------------------------------------------

\* A cache is its _store (key -> value and expires_at), its _ttl, and the
\* time time.time() returns (now). It also keeps what is needed to speak
\* about its history: written has, for each key set and not invalidated or
\* cleared since, the arguments and the time of the last set; op, key, time,
\* result and held are the last call, its key, when it was made, what it
\* returned, and whether the key was in the store when it was made.

\* a mapping without one key
Without(f, key) == [k \in DOMAIN f \ {key} |-> f[k]]

\* a mapping with one key set
With(f, key, v) == [k \in DOMAIN f \cup {key} |-> IF k = key THEN v ELSE f[k]]

\* a slip: an entry is still returned at its expiry time
TTLCache_get_Inclusive(c, key) ==
    LET held == key \in DOMAIN c.store
        fresh == held /\ c.now <= c.store[key].expires_at
    IN [c EXCEPT
          !.store = IF held /\ ~fresh THEN Without(@, key) ELSE @,
          !.op = "get", !.key = key, !.time = c.now, !.held = held,
          !.result = IF fresh THEN c.store[key].value ELSE None]

\* TTLCache.get(key)
TTLCache_get(c, key) ==
    LET held == key \in DOMAIN c.store
        fresh == held /\ c.now < c.store[key].expires_at
    IN [c EXCEPT
          !.store = IF held /\ ~fresh THEN Without(@, key) ELSE @,
          !.op = "get", !.key = key, !.time = c.now, !.held = held,
          !.result = IF fresh THEN c.store[key].value ELSE None]

\* TTLCache.set(key, value, ttl); ttl is NoneInt when not given
TTLCache_set(c, key, value, ttl) ==
    LET expires_at == c.now + (IF ttl # NoneInt THEN ttl ELSE c.ttl)
    IN [c EXCEPT
          !.store = With(@, key, [value |-> value, expires_at |-> expires_at]),
          !.written = With(@, key, [value |-> value, at |-> c.now,
                                    ttl |-> ttl]),
          !.op = "set", !.key = key, !.time = c.now,
          !.held = key \in DOMAIN c.store,
          !.result = None]

\* TTLCache.invalidate(key)
TTLCache_invalidate(c, key) ==
    [c EXCEPT
       !.store = Without(@, key),
       !.written = Without(@, key),
       !.op = "invalidate", !.key = key, !.time = c.now,
       !.held = key \in DOMAIN c.store,
       !.result = None]

\* TTLCache.clear()
TTLCache_clear(c) ==
    [c EXCEPT
       !.store = [k \in {} |-> 0],
       !.written = [k \in {} |-> 0],
       !.op = "clear", !.key = "none", !.time = c.now, !.held = FALSE,
       !.result = None]

\* the last time the clock is followed to
MaxClock == 3

CacheKeys == {"k1", "k2"}

CacheValues == { <<1>>, <<2>> }

\* the ttl arguments of set: not given, 0 and 1
TtlChoices == {NoneInt, 0, 1}

cacheRest == <<mergeVars, scanOnly, unitVars, score, summary, route, extract>>

\* time passes
Tick ==
    /\ scan_cache.now < MaxClock
    /\ scan_cache' = [scan_cache EXCEPT !.now = @ + 1]
    /\ UNCHANGED cacheRest

CacheGet ==
    /\ \E key \in CacheKeys : scan_cache' = TTLCache_get(scan_cache, key)
    /\ UNCHANGED cacheRest

CacheSet ==
    /\ \E key \in CacheKeys, value \in CacheValues, ttl \in TtlChoices :
         scan_cache' = TTLCache_set(scan_cache, key, value, ttl)
    /\ UNCHANGED cacheRest

CacheInvalidate ==
    /\ \E key \in CacheKeys :
         scan_cache' = TTLCache_invalidate(scan_cache, key)
    /\ UNCHANGED cacheRest

CacheClear ==
    /\ scan_cache' = TTLCache_clear(scan_cache)
    /\ UNCHANGED cacheRest

NextCache == Tick \/ CacheGet \/ CacheSet \/ CacheInvalidate \/ CacheClear

\* TTLCache(ttl_seconds): the default of the settings, or 0
InitCache ==
    /\ \E ttl_seconds \in {0, cache_ttl_seconds} :
         scan_cache = [NoCache EXCEPT !.ttl = ttl_seconds]
    /\ ScanIdle /\ MergeIdle /\ ScoreIdle
    /\ summary = NoSummary /\ route = NoRoute /\ extract = NoExtract
    /\ UnitsIdle

\* a TTLCache under any sequence of calls
SpecCache == InitCache /\ [][NextCache]_vars

\* the entry last set for the key of the last call is there and the call
\* was made before its expiry
LastSetAlive ==
    /\ scan_cache.key \in DOMAIN scan_cache.written
    /\ LET w == scan_cache.written[scan_cache.key]
       IN scan_cache.time
            < w.at + (IF w.ttl = NoneInt THEN scan_cache.ttl ELSE w.ttl)

\* C27: get(k) returns the value of the last set(k) iff the entry was not
\* invalidated or cleared since and the time is strictly before the time of
\* that set plus its ttl (the ttl given, else the default); otherwise it
\* returns None and leaves no entry for k in the store; an entry set with
\* ttl 0 is never returned
CacheGetRule ==
    scan_cache.op = "get" =>
      /\ scan_cache.result = IF LastSetAlive
                             THEN scan_cache.written[scan_cache.key].value
                             ELSE None
      /\ ~LastSetAlive => scan_cache.key \notin DOMAIN scan_cache.store
      /\ (/\ scan_cache.key \in DOMAIN scan_cache.written
          /\ scan_cache.written[scan_cache.key].ttl = 0)
            => scan_cache.result = None

\* C27 witness: a get found its entry, set with ttl 1 over the default 2, at
\* its expiry time, returned None and removed it, the other key's entry
\* staying
CacheGetWitness ==
    /\ scan_cache.op = "get"
    /\ scan_cache.held
    /\ scan_cache.ttl = cache_ttl_seconds
    /\ scan_cache.key \in DOMAIN scan_cache.written
    /\ scan_cache.written[scan_cache.key].ttl = 1
    /\ scan_cache.time = scan_cache.written[scan_cache.key].at + 1
    /\ scan_cache.result = None
    /\ scan_cache.key \notin DOMAIN scan_cache.store
    /\ DOMAIN scan_cache.store # {}

\* ------------------------------------------------------------------------
\* airdrop_exposure_scan (app/routes/airdrop.py)
\* ------------------------------------------------------------------------

\* settings.supported_chains
supported_chains == {"base", "solana"}

\* the addresses of the requests: two spellings of one EVM address, another
\* EVM address, a Solana address, and a string that is no address
Addresses == {"0xAB", "0xab", "0xcd", "So1", "bad"}

\* validate_address(address, chain)
validate_address(address, chain_name) ==
    CASE chain_name = "base" -> address \in {"0xAB", "0xab", "0xcd"}
      [] chain_name = "solana" -> address = "So1"
      [] OTHER -> FALSE

\* normalize_address(address, chain): address.lower() on base
normalize_address(address, chain_name) ==
    IF chain_name = "base"
    THEN CASE address = "0xAB" -> "0xab"
           [] address = "So1" -> "so1"
           [] OTHER -> address
    ELSE address

\* a windowDays value that int() rejects
BadWindow == -2

\* the window_days of a request from its raw windowDays (NoneInt when there
\* is none)
ResolveWindowDays(raw_window) ==
    IF raw_window = NoneInt \/ raw_window = BadWindow THEN default_window_days
    ELSE Max(min_window_days, Min(max_window_days, raw_window))

\* a slip: the key leaves the window out
CacheKey_NoWindow(chain_name, address, days) == <<chain_name, address, 0>>

\* cache_key = f"{chain}:{address}:{window_days}"; the three parts hold no
\* colon, so the key is the three parts
CacheKey(chain_name, address, days) == <<chain_name, address, days>>

\* how many requests are followed
MaxRequests == 2

\* the requests that are sent: chain, address, windowDays
RequestChoices ==
    { <<"base", "0xAB", 0>>, <<"base", "0xab", min_window_days>>,
      <<"base", "0xab", BadWindow>>, <<"base", "0xcd", 0>>,
      <<"solana", "So1", NoneInt>> }

\* a request that ended with an error response
Refused(request, status) ==
    [chain |-> request[1], address |-> request[2], raw_window |-> request[3],
     pc |-> "done", status |-> status, cache_key |-> <<>>,
     cached |-> FALSE, response |-> None]

\* a request past its parameters, with its cache key
Resolved(request, cache_key, pc_after, status, cached, response) ==
    [chain |-> request[1], address |-> request[2], raw_window |-> request[3],
     pc |-> pc_after, status |-> status, cache_key |-> cache_key,
     cached |-> cached, response |-> response]

\* the cache with the record of its last call wiped: the route keeps no
\* account of it
Quiet(c) ==
    [c EXCEPT !.op = "none", !.key = "none", !.time = 0, !.held = FALSE,
              !.result = None]

\* airdrop_exposure_scan from its start to its first await, or to the
\* return before it
Received(request, c) ==
    LET chain_name == request[1]
        address == request[2]
    IN IF chain_name \notin supported_chains
       THEN [request |-> Refused(request, 400), cache |-> c]
       ELSE IF ~validate_address(address, chain_name)
       THEN [request |-> Refused(request, 400), cache |-> c]
       ELSE
         LET cache_key == CacheKey(chain_name,
                              normalize_address(address, chain_name),
                              ResolveWindowDays(request[3]))
             looked == TTLCache_get(c, cache_key)
         IN IF Truthy(looked.result)
            THEN [request |-> Resolved(request, cache_key, "done", 200, TRUE,
                                       looked.result),
                  cache |-> Quiet(looked)]
            ELSE IF chain_name \notin route.loaded
            THEN [request |-> Resolved(request, cache_key, "done", 503,
                                       FALSE, None),
                  cache |-> Quiet(looked)]
            ELSE [request |-> Resolved(request, cache_key, "wallet_type",
                                       0, FALSE, None),
                  cache |-> Quiet(looked)]

routeRest == <<mergeVars, scanOnly, unitVars, score, summary, extract>>

\* a POST arrives and is handled up to its first await
Receive ==
    /\ Len(route.requests) < MaxRequests
    /\ \E request \in RequestChoices :
         LET got == Received(request, scan_cache)
         IN /\ route' = [route EXCEPT !.requests = Append(@, got.request)]
            /\ scan_cache' = got.cache
    /\ UNCHANGED routeRest

\* _detect_wallet_type returned, and scan_wallet is called
CallScanWallet ==
    /\ \E r \in 1..Len(route.requests) :
         /\ route.requests[r].pc = "wallet_type"
         /\ route' = [route EXCEPT
                        !.requests[r].pc = "scanning",
                        !.scan_calls =
                            Append(@, [by |-> r,
                                       cache_key |-> route.requests[r].cache_key,
                                       completeness |-> "running",
                                       stored_at |-> NoneInt])]
    /\ UNCHANGED <<routeRest, scan_cache>>

\* scan_wallet returned; the response is built, stored and returned. The
\* response is told by the place of its scan among the calls of scan_wallet
ScanReturned ==
    /\ \E r \in 1..Len(route.requests),
          outcome \in {"full", "partial", "error"} :
         /\ route.requests[r].pc = "scanning"
         /\ LET n == CHOOSE k \in 1..Len(route.scan_calls) :
                         route.scan_calls[k].by = r
                result == <<n>>
            IN /\ route' = [route EXCEPT
                              !.requests[r].pc = "done",
                              !.requests[r].status = 200,
                              !.requests[r].response = result,
                              !.scan_calls[n].completeness = outcome,
                              !.scan_calls[n].stored_at = scan_cache.now]
               /\ scan_cache' = Quiet(TTLCache_set(scan_cache,
                                    route.requests[r].cache_key, result,
                                    NoneInt))
    /\ UNCHANGED routeRest

\* time passes while requests are handled, up to the time at which an
\* entry stored at the start expires
RouteTick ==
    /\ scan_cache.now < cache_ttl_seconds
    /\ scan_cache' = [scan_cache EXCEPT !.now = @ + 1]
    /\ UNCHANGED <<routeRest, route>>

NextRoute == Receive \/ CallScanWallet \/ ScanReturned \/ RouteTick

\* the service is up: scan_cache = TTLCache(), the catalog loaded for both
\* chains
InitRoute ==
    /\ scan_cache = NoCache
    /\ route = [NoRoute EXCEPT !.loaded = supported_chains]
    /\ ScanIdle /\ MergeIdle /\ ScoreIdle
    /\ summary = NoSummary /\ extract = NoExtract
    /\ UnitsIdle

\* the scan route under requests that overlap
SpecRoute == InitRoute /\ [][NextRoute]_vars

\* what a request asks for: its chain, its address as normalized, its
\* windowDays as clamped
Asked(q) ==
    <<q.chain, normalize_address(q.address, q.chain),
      ResolveWindowDays(q.raw_window)>>

\* the calls of scan_wallet whose response is stored for what q asks for
\* and has not expired
StoredFor(q) ==
    { n \in 1..Len(route.scan_calls) :
        /\ route.scan_calls[n].stored_at # NoneInt
        /\ Asked(route.requests[route.scan_calls[n].by]) = Asked(q)
        /\ scan_cache.now < route.scan_calls[n].stored_at + scan_cache.ttl }

\* a request answered from the cache got the response of a finished scan
\* made for a request that asked for the same, and called scan_wallet
\* itself at no time
CachedIsOwn ==
    \A r \in 1..Len(route.requests) :
      route.requests[r].cached =>
        /\ route.requests[r].pc = "done"
        /\ route.requests[r].status = 200
        /\ \A n \in 1..Len(route.scan_calls) : route.scan_calls[n].by # r
        /\ \E n \in 1..Len(route.scan_calls) :
             /\ route.requests[r].response = <<n>>
             /\ route.scan_calls[n].completeness
                  \in {"full", "partial", "error"}
             /\ Asked(route.requests[route.scan_calls[n].by])
                  = Asked(route.requests[r])

\* a request that arrives while a response is stored for what it asks for
\* is answered from the cache at once, and scan_wallet is not called
ServedWhenStored ==
    Len(route'.requests) = Len(route.requests) + 1 =>
      LET q == route'.requests[Len(route'.requests)]
      IN (/\ q.chain \in supported_chains
          /\ validate_address(q.address, q.chain)
          /\ StoredFor(q) # {})
           => /\ q.cached
              /\ q.pc = "done"
              /\ route'.scan_calls = route.scan_calls

\* C26: a POST for the same chain, normalized address and clamped
\* windowDays as a response stored within the TTL gets that response,
\* whatever its completeness, and scan_wallet is not called for it; a
\* request never gets the response stored for a request that differs in one
\* of the three
RouteCaching == []CachedIsOwn /\ [][ServedWhenStored]_vars

\* C26 witness: the scan for 0xAB with windowDays 0 failed, its response was
\* stored, and the request for 0xab with the least windowDays got it from
\* the cache; no second scan was made
RouteCachingWitness ==
    /\ Len(route.requests) = 2
    /\ route.requests[1].address = "0xAB"
    /\ route.requests[1].raw_window = 0
    /\ route.requests[2].address = "0xab"
    /\ route.requests[2].raw_window = min_window_days
    /\ route.requests[2].cached
    /\ route.requests[2].response = <<1>>
    /\ Len(route.scan_calls) = 1
    /\ route.scan_calls[1].completeness = "error"

\* ------------------------------------------------------------------------
\* compute_scan_window, _binary_search_block_by_timestamp
\* (app/services/rpc.py), called on their own
\* ------------------------------------------------------------------------

\* the settings tried: those of the scans above; the defaults of Settings;
\* the defaults with one-second blocks; the defaults with the block range
\* capped
WindowSettings ==
    { [min_window_days |-> min_window_days,
       max_window_days |-> max_window_days,
       base_block_time_seconds |-> base_block_time_seconds,
       max_scan_block_range |-> max_scan_block_range],
      [min_window_days |-> 30, max_window_days |-> 180,
       base_block_time_seconds |-> 2, max_scan_block_range |-> 0],
      [min_window_days |-> 30, max_window_days |-> 180,
       base_block_time_seconds |-> 1, max_scan_block_range |-> 0],
      [min_window_days |-> 30, max_window_days |-> 180,
       base_block_time_seconds |-> 2, max_scan_block_range |-> 2000] }

\* the window_days arguments tried: below, inside and above each range
WindowDaysArgs == {0, 2, 45, 400}

\* the heights of the chain tried
ChainHeights == {5, 3000, 20000000}

\* how the chain's block timestamps run: every block older than any
\* target; every block at the present; blocks a fixed time apart; blocks
\* whose timestamps do not grow with the block number
ChainShapes ==
    { <<"genesis", 0>>, <<"present", 0>>, <<"steady", 1>>, <<"steady", 2>>,
      <<"steady", 3>>, <<"uneven", 0>> }

\* int(block["timestamp"], 16) of block block_num on the chain of w
ChainTimestamp(w, block_num) ==
    CASE w.shape[1] = "genesis" -> 0
      [] w.shape[1] = "present" -> NowTs
      [] w.shape[1] = "steady" ->
            Max(0, NowTs - (w.latest - block_num) * w.shape[2])
      [] OTHER -> IF block_num % 2 = 0 THEN 0 ELSE NowTs

\* compute_scan_window(rpc, window_days) is entered, the memo being memo
WindowFrame(settings, days, latest, shape, memo, round) ==
    [at |-> "called", settings |-> settings, window_days |-> days,
     latest |-> latest, shape |-> shape, memo |-> memo, round |-> round,
     days |-> 0, target_timestamp |-> 0, latest_block |-> 0,
     low |-> 0, high |-> 0, it |-> 0, rpc_calls |-> 0, search_calls |-> 0,
     memo0 |-> memo, probes |-> <<>>, result |-> [start_block |-> 0, end_block |-> 0,
                                  window_days |-> 0, start_timestamp |-> 0,
                                  rpc_calls_used |-> 0]]

WindowCalled ==
    \E settings \in WindowSettings, days \in WindowDaysArgs,
       latest \in ChainHeights, shape \in ChainShapes :
        window = WindowFrame(settings, days, latest, shape, EmptyCache, 1)

windowRest ==
    <<mergeVars, scanOnly, score, summary, serviceVars, batch, limiter,
      matched>>

\* compute_scan_window up to the call of the search: the clamp, the
\* target, eth_blockNumber, the estimate
WindowLatestBlock ==
    /\ window.at = "called"
    /\ LET st == window.settings
           days == Clamp(window.window_days, st.min_window_days,
                         st.max_window_days)
           latest_block == window.latest
       IN window' =
            [window EXCEPT
               !.at = "search", !.days = days,
               !.target_timestamp = NowTs - days * SecondsPerDay,
               !.latest_block = latest_block, !.rpc_calls = 1,
               !.low = EstimatedStart(latest_block, days,
                                      st.base_block_time_seconds),
               !.high = latest_block]
    /\ UNCHANGED windowRest

\* eth_blockNumber or eth_getBlockByNumber raises, and compute_scan_window
\* lets it through
WindowCallFails ==
    /\ \/ window.at = "called"
       \/ /\ window.at = "search" /\ ~SearchDone(window)
          /\ (window.low + window.high) \div 2 \notin DOMAIN window.memo
    /\ window' = [window EXCEPT !.at = "raised"]
    /\ UNCHANGED windowRest

\* one turn of the loop of the search: the probe of mid, from the memo or
\* from the chain
WindowProbe ==
    /\ window.at = "search" /\ ~SearchDone(window)
    /\ LET mid == (window.low + window.high) \div 2
           cached == mid \in DOMAIN window.memo
           mid_ts == IF cached THEN window.memo[mid]
                     ELSE ChainTimestamp(window, mid)
           narrowed == Narrow(window, mid, mid_ts)
       IN window' =
            [narrowed EXCEPT
               !.memo = IF cached THEN @ ELSE CachePut(@, mid, mid_ts),
               !.search_calls = IF cached THEN @ ELSE @ + 1,
               !.probes = Append(@, [mid |-> mid, mid_ts |-> mid_ts,
                                     cached |-> cached, low |-> window.low,
                                     high |-> window.high])]
    /\ UNCHANGED windowRest

\* the search returns low and its calls; compute_scan_window caps the
\* range and returns
WindowReturn ==
    /\ window.at = "search" /\ SearchDone(window)
    /\ LET start_block == window.low
           rpc_calls == window.rpc_calls + window.search_calls
       IN window' =
            [window EXCEPT
               !.at = "returned",
               !.result =
                  [start_block |->
                      CapStart(start_block, window.latest_block,
                               window.settings.max_scan_block_range),
                   end_block |-> window.latest_block,
                   window_days |-> window.days,
                   start_timestamp |-> window.target_timestamp,
                   rpc_calls_used |-> rpc_calls]]
    /\ UNCHANGED windowRest

\* compute_scan_window is called once more in the process, the memo being
\* what the first call left
WindowAgain ==
    /\ window.at = "returned" /\ window.round = 1
    /\ \E days \in WindowDaysArgs :
         window' = WindowFrame(window.settings, days, window.latest,
                               window.shape, window.memo, 2)
    /\ UNCHANGED windowRest

NextWindow ==
    \/ WindowLatestBlock
    \/ WindowCallFails
    \/ WindowProbe
    \/ WindowReturn
    \/ WindowAgain

InitWindow ==
    /\ WindowCalled /\ ScanIdle /\ MergeIdle /\ ScoreIdle
    /\ summary = NoSummary /\ scan_cache = NoCache /\ route = NoRoute
    /\ extract = NoExtract
    /\ batch = NoBatch /\ limiter = NoLimiter /\ matched = NoMatched

\* compute_scan_window called twice in one process
SpecWindow == InitWindow /\ [][NextWindow]_vars

\* the bracket before probe k of the running call, and after the last one
BracketAt(k) ==
    IF k <= Len(window.probes)
    THEN <<window.probes[k].low, window.probes[k].high>>
    ELSE <<window.low, window.high>>

\* the probes of the running call that found their block outside the memo
\* the call started with
Unmemoized ==
    { k \in 1..Len(window.probes) :
         window.probes[k].mid \notin DOMAIN window.memo0 }

\* C31: the search makes at most 20 probes and none once the bracket is at
\* most 10 wide; each probe is strictly inside the bracket and moves low
\* to it when its timestamp is below the target and high to it otherwise;
\* the search returns low; the calls reported are one for eth_blockNumber
\* and one for each probed block that the memo did not hold, at most 21
WindowSearchShape ==
    window.at \in {"search", "returned"} =>
        /\ Len(window.probes) <= SearchIterations
        /\ Len(window.probes) = SearchIterations => SearchDone(window)
        /\ \A k \in 1..Len(window.probes) :
             LET p == window.probes[k]
             IN /\ p.high - p.low > SearchWidth
                /\ p.low < p.mid /\ p.mid < p.high
                /\ BracketAt(k + 1) =
                     IF p.mid_ts < window.target_timestamp
                     THEN <<p.mid, p.high>> ELSE <<p.low, p.mid>>
                /\ p.mid \notin DOMAIN window.memo0
                     => p.mid_ts = ChainTimestamp(window, p.mid)
                /\ p.mid \in DOMAIN window.memo0
                     => p.mid_ts = window.memo0[p.mid]
        /\ window.at = "returned" =>
             /\ window.result.start_block =
                  Max(window.low, IF window.settings.max_scan_block_range > 0
                                  THEN window.latest_block
                                       - window.settings.max_scan_block_range
                                  ELSE window.low)
             /\ window.result.rpc_calls_used = 1 + Cardinality(Unmemoized)
             /\ window.result.rpc_calls_used <= SearchIterations + 1

\* C31 witness: a search that used all 20 probes and returned with the
\* bracket still wider than 10, every probe a call
WindowSearchWitness ==
    /\ window.at = "returned"
    /\ Len(window.probes) = SearchIterations
    /\ window.high - window.low > SearchWidth
    /\ window.result.rpc_calls_used = SearchIterations + 1
    /\ window.result.start_block = window.low

\* a second search in the process found some probes in the memo and not
\* others
WindowSearchMemoWitness ==
    /\ window.at = "returned" /\ window.round = 2
    /\ \E k \in 1..Len(window.probes) : window.probes[k].cached
    /\ Unmemoized # {}

\* C32: the window returned ends at the latest block and starts between
\* the estimated start of the clamped window and the latest block; with a
\* range cap set, it is at most the cap long; the days used are the
\* argument clamped into [min_window_days, max_window_days]
WindowBounds ==
    window.at = "returned" =>
        LET st == window.settings
            r == window.result
            days == IF window.window_days < st.min_window_days
                    THEN st.min_window_days
                    ELSE IF window.window_days > st.max_window_days
                         THEN st.max_window_days
                         ELSE window.window_days
            blocks_back ==
                (days * SecondsPerDay) \div st.base_block_time_seconds
        IN /\ r.end_block = window.latest
           /\ r.window_days = days
           /\ r.start_timestamp = NowTs - days * SecondsPerDay
           /\ r.start_block >= 0
           /\ r.start_block >= window.latest - blocks_back
           /\ r.start_block <= r.end_block
           /\ st.max_scan_block_range > 0
                => r.end_block - r.start_block <= st.max_scan_block_range

\* C32 witness: an argument above the range, and a search that ended
\* further back than the cap allows
WindowBoundsWitness ==
    /\ window.at = "returned"
    /\ window.window_days > window.settings.max_window_days
    /\ window.settings.max_scan_block_range > 0
    /\ window.low < window.latest_block - window.settings.max_scan_block_range
    /\ window.result.end_block - window.result.start_block
         = window.settings.max_scan_block_range

\* ------------------------------------------------------------------------
\* get_block_timestamp, batch_get_block_timestamps (app/services/rpc.py):
\* calls that overlap and share _block_ts_cache
\* ------------------------------------------------------------------------

\* the blocks looked up
BatchBlocks == {1, 2, 3}

\* the sets of blocks asked for
BatchRequests == { {}, {1, 2}, {2, 3} }

\* how many calls of batch_get_block_timestamps overlap
MaxBatchCalls == 2

\* the block eth_getBlockByNumber returns for block_num: the chain has one
\* timestamp per block
ChainBlock(block_num) == [timestamp |-> hex(NowTs - 16 * block_num)]

\* a call not made yet
NoBatchCall ==
    [at |-> "idle", block_numbers |-> {}, result |-> EmptyCache,
     to_fetch |-> {}, tasks |-> [bn \in {} |-> "created"],
     timestamps |-> EmptyCache]

\* the memo as earlier scans left it
BatchMemos == {EmptyCache, CachePut(EmptyCache, 1, int16(ChainBlock(1).timestamp))}

BatchIdle ==
    \E memo \in BatchMemos :
        batch = [at |-> "running", memo |-> memo, memo0 |-> memo,
                 calls |-> [c \in 1..MaxBatchCalls |-> NoBatchCall],
                 requests |-> [bn \in BatchBlocks |-> 0]]

batchRest ==
    <<mergeVars, scanOnly, score, summary, serviceVars, window, limiter,
      matched>>

\* the entries of the memo for the blocks asked for
Memoized(memo, block_numbers) ==
    [bn \in block_numbers \cap DOMAIN memo |-> memo[bn]]

\* batch_get_block_timestamps(block_numbers) up to the gather: the blocks
\* are split into those the memo holds and those to fetch; with nothing to
\* fetch the call returns at once
BatchCall(c) ==
    /\ batch.calls[c].at = "idle"
    /\ \E block_numbers \in BatchRequests :
         LET result == Memoized(batch.memo, block_numbers)
             to_fetch == block_numbers \ DOMAIN batch.memo
         IN batch' =
              [batch EXCEPT
                 !.calls[c] =
                    [at |-> IF to_fetch = {} THEN "returned" ELSE "gather",
                     block_numbers |-> block_numbers, result |-> result,
                     to_fetch |-> to_fetch,
                     tasks |-> [bn \in to_fetch |-> "created"],
                     timestamps |-> EmptyCache]]
    /\ UNCHANGED batchRest

\* get_block_timestamp(bn), one of the gathered lookups, runs up to its
\* first suspension: the memo answers, or eth_getBlockByNumber is sent
LookupStart(c, bn) ==
    /\ batch.calls[c].at = "gather"
    /\ bn \in batch.calls[c].to_fetch
    /\ batch.calls[c].tasks[bn] = "created"
    /\ IF bn \in DOMAIN batch.memo
       THEN batch' =
              [batch EXCEPT
                 !.calls[c].tasks[bn] = "done",
                 !.calls[c].timestamps = With(@, bn, batch.memo[bn])]
       ELSE batch' =
              [batch EXCEPT
                 !.calls[c].tasks[bn] = "awaiting",
                 !.requests[bn] = @ + 1]
    /\ UNCHANGED batchRest

\* eth_getBlockByNumber answers; the lookup stores the timestamp and
\* returns it
LookupAnswer(c, bn) ==
    /\ batch.calls[c].at = "gather"
    /\ bn \in batch.calls[c].to_fetch
    /\ batch.calls[c].tasks[bn] = "awaiting"
    /\ LET ts == int16(ChainBlock(bn).timestamp)
       IN batch' =
            [batch EXCEPT
               !.memo = CachePut(@, bn, ts),
               !.calls[c].tasks[bn] = "done",
               !.calls[c].timestamps = With(@, bn, ts)]
    /\ UNCHANGED batchRest

\* the gather is over: the timestamps are zipped into the result
BatchReturn(c) ==
    /\ batch.calls[c].at = "gather"
    /\ \A bn \in batch.calls[c].to_fetch : batch.calls[c].tasks[bn] = "done"
    /\ LET call == batch.calls[c]
       IN batch' =
            [batch EXCEPT
               !.calls[c].at = "returned",
               !.calls[c].result =
                  [bn \in call.block_numbers |->
                      IF bn \in call.to_fetch THEN call.timestamps[bn]
                      ELSE call.result[bn]]]
    /\ UNCHANGED batchRest

NextBatch ==
    \E c \in 1..MaxBatchCalls :
        \/ BatchCall(c)
        \/ \E bn \in BatchBlocks : LookupStart(c, bn) \/ LookupAnswer(c, bn)
        \/ BatchReturn(c)

InitBatch ==
    /\ BatchIdle /\ ScanIdle /\ MergeIdle /\ ScoreIdle
    /\ summary = NoSummary /\ scan_cache = NoCache /\ route = NoRoute
    /\ extract = NoExtract
    /\ window = NoWindow /\ limiter = NoLimiter /\ matched = NoMatched

\* calls of batch_get_block_timestamps that overlap
SpecBatch == InitBatch /\ [][NextBatch]_vars

\* the timestamp the chain has for a block
ChainTs(block_num) == NowTs - 16 * block_num

\* the blocks asked for by the calls made so far
BlocksAsked ==
    UNION { batch.calls[c].block_numbers : c \in 1..MaxBatchCalls }

\* every call that returned has the chain's timestamp for each block it
\* was asked for, the memo holds the chain's timestamp for each of its
\* blocks, and with no call under way the memo holds what it held before
\* and the blocks asked for
BatchDeterminate ==
    batch.at = "running" =>
        /\ \A c \in 1..MaxBatchCalls :
             batch.calls[c].at = "returned" =>
                batch.calls[c].result =
                    [bn \in batch.calls[c].block_numbers |-> ChainTs(bn)]
        /\ \A bn \in DOMAIN batch.memo : batch.memo[bn] = ChainTs(bn)
        /\ (\A c \in 1..MaxBatchCalls : batch.calls[c].at # "gather")
              => DOMAIN batch.memo = DOMAIN batch.memo0 \cup BlocksAsked

\* a step keeps every entry of the memo as it is, and sends a request for
\* a block only if the memo does not hold the block
MemoKept ==
    batch.at = "running" =>
        /\ \A bn \in DOMAIN batch.memo :
             /\ bn \in DOMAIN batch'.memo
             /\ batch'.memo[bn] = batch.memo[bn]
        /\ \A bn \in BatchBlocks :
             batch'.requests[bn] # batch.requests[bn]
                => bn \notin DOMAIN batch.memo

\* C33: an entry of the block-timestamp memo is never changed or removed
\* and a block the memo holds is never requested again; under every
\* interleaving of overlapping lookups each call returns the chain's
\* timestamp for each of its blocks and the memo ends with the same
\* content
BatchMemo == []BatchDeterminate /\ [][MemoKept]_vars

\* C33 witness: two calls overlapped on block 2, both requested it before
\* either answer came, and both returned
BatchMemoWitness ==
    /\ batch.at = "running"
    /\ batch.calls[1].at = "returned" /\ batch.calls[2].at = "returned"
    /\ batch.calls[1].block_numbers = {1, 2}
    /\ batch.calls[2].block_numbers = {2, 3}
    /\ batch.requests[2] = 2
    /\ 1 \in DOMAIN batch.memo0 /\ batch.requests[1] = 0

\* a lookup that was gathered before the memo held its block and ran after
BatchLateLookupWitness ==
    /\ batch.at = "running"
    /\ batch.calls[1].at = "returned" /\ batch.calls[2].at = "returned"
    /\ 2 \in batch.calls[1].to_fetch /\ 2 \in batch.calls[2].to_fetch
    /\ batch.requests[2] = 1

\* ------------------------------------------------------------------------
\* The hybrid runner
\* ------------------------------------------------------------------------

\* the modes that have a detector on EVM
RunsOnEvm(mode_str) ==
    mode_str \in {"event_topic", "transfer_to_contract", "tx_to_contract"}

\* the calls reported by the sub-detectors that returned before the k-th
\* one was started
CallsBefore(k) ==
    SumOf([j \in 1..(k - 1) |-> hyb.results[j][2]])

\* a sub-detector of the running hybrid contract is running
SubRunning == pc = "detect" /\ det.caller = "hybrid"

\* the sub-detectors started so far were started in list order, each on a
\* mode that has an EVM detector, on the hybrid's contract, with the
\* hybrid's budget less the calls of those before it, which was above 0;
\* every spec passed over has a mode without an EVM detector and added
\* no calls and no result
HybridInOrder ==
    hyb.caller # "none" =>
        LET subs == hyb.contract.detection_config.sub_detectors
            started == hyb.started
        IN /\ pc # "raised"
           /\ \A k \in 1..Len(started) :
                /\ started[k].mode = subs[started[k].si + 1]
                /\ RunsOnEvm(started[k].mode)
                /\ k > 1 => started[k - 1].si < started[k].si
                /\ started[k].si <= hyb.si
                /\ started[k].budget = hyb.budget - CallsBefore(k)
                /\ started[k].budget > 0
           /\ \A j \in 0..(hyb.si - 1) :
                \/ \E k \in 1..Len(started) : started[k].si = j
                \/ ~RunsOnEvm(subs[j + 1])
           /\ Len(started) = Len(hyb.results) + (IF SubRunning THEN 1 ELSE 0)
           /\ hyb.used = CallsBefore(Len(hyb.results) + 1)
           /\ SubRunning =>
                /\ det.contract = hyb.contract
                /\ det.mode = started[Len(started)].mode
                /\ det.rpc_budget = started[Len(started)].budget
                /\ started[Len(started)].si = hyb.si

\* when the runner returns to _scan_evm_protocol, its results are merged
\* into the protocol's result in the order they were made and their calls
\* are added to the protocol's calls
HybridMerged ==
    (pc = "hybrid" /\ pc' = "contract") =>
        LET r == hyb.results
        IN /\ Len(r) <= 2
           /\ merged' =
                CASE Len(r) = 0 -> merged
                  [] Len(r) = 1 -> _merge_result(merged, r[1][1])
                  [] OTHER -> _merge_result(_merge_result(merged, r[1][1]),
                                            r[2][1])
           /\ total_rpc' = total_rpc + SumOf([j \in 1..Len(r) |-> r[j][2]])

\* C34: the hybrid runner starts its sub-detectors in list order on the
\* same contract, each with the budget less the calls used before it and
\* none once used >= budget, passes over specs whose mode has no EVM
\* detector with no call and no error, and its results are merged into
\* the protocol's result in that order with all their calls charged
HybridDetection == []HybridInOrder /\ [][HybridMerged]_vars

\* C34 witness: within a scan, the specs without a mode, with an unknown
\* mode, with mode hybrid and with mode program_id_match were passed over,
\* event_topic ran with the budget of 3 and tx_to_contract with what was
\* left, and the budget is spent
HybridDetectionWitness ==
    /\ pc = "hybrid" /\ hyb.caller = "proto"
    /\ hyb.si = Len(hyb.contract.detection_config.sub_detectors)
    /\ Len(hyb.started) = 2 /\ Len(hyb.results) = 2
    /\ hyb.started[1].mode = "event_topic" /\ hyb.started[1].budget = 3
    /\ hyb.started[2].mode = "tx_to_contract"
    /\ hyb.started[2].budget = 3 - hyb.results[1][2]
    /\ hyb.results[1][2] > 0 /\ hyb.results[2][2] > 0
    /\ hyb.results[1][1].interacted /\ hyb.results[2][1].interacted

\* the runner stopped before a sub-detector that has an EVM detector,
\* because the budget was spent
HybridStoppedWitness ==
    /\ pc = "hybrid" /\ hyb.caller = "proto"
    /\ hyb.used >= hyb.budget
    /\ hyb.si < Len(hyb.contract.detection_config.sub_detectors)
    /\ Len(hyb.started) = 1

\* ------------------------------------------------------------------------
\* ProgramIdMatchDetector.detect_from_parsed_txs, _tx_involves_program
\* (app/detectors/program_id.py), called on their own
\* ------------------------------------------------------------------------

\* a parsed transaction
ParsedTx(type, timestamp, instructions, accountData, accountKeys) ==
    [type |-> type, timestamp |-> timestamp, instructions |-> instructions,
     accountData |-> accountData, accountKeys |-> accountKeys]

\* the transaction {}
EmptyTx == ParsedTx(Missing, 0, <<>>, {}, {})

\* the transactions tried, for the program Prog1: a top-level instruction
\* of the program whose data starts with a discriminator; one whose data
\* does not; one whose data is shorter than a discriminator, beside an
\* instruction of another program whose data starts with one; an inner
\* instruction of the program; the program in accountData; in accountKeys
\* as a string; as the pubkey of a dict; {}; and one that holds other
\* programs and keys only
ParsedTxPool ==
    { ParsedTx("SWAP", 1000, <<Instruction("Prog1", <<1, 2, 3>>, <<>>)>>,
               {}, {}),
      ParsedTx("TRANSFER", 3000, <<Instruction("Prog1", <<9, 9>>, <<>>)>>,
               {}, {}),
      ParsedTx("SWAP", 2000,
               <<Instruction("Other", <<1, 2>>, <<>>),
                 Instruction("Prog1", <<1>>, <<>>)>>, {}, {}),
      ParsedTx(Missing, 0, <<Instruction("Other", <<9>>, <<"Prog1">>)>>,
               {}, {}),
      ParsedTx("SWAP", 2000, <<>>, {"Prog1", "Acct"}, {}),
      ParsedTx("STAKE", 0, <<>>, {}, {<<"str", "Key">>, <<"str", "Prog1">>}),
      ParsedTx("SWAP", 1000, <<>>, {}, {<<"dict", "Prog1">>}),
      EmptyTx,
      ParsedTx("SWAP", 500, <<Instruction("Other", <<1, 2>>, <<"Inner">>)>>,
               {"Acct"}, {<<"dict", Missing>>, <<"str", "Key">>}) }

\* how many parsed transactions a call is given
MaxParsedTxs == 2

\* the contracts tried: no discriminators, one, two
ProgramContracts ==
    { Prog1Contract, Prog1Discriminated,
      ContractEntry("Prog1", "program_id_match",
          [DetectionConfig EXCEPT
              !.instruction_discriminators = << <<7>>, <<1, 2>> >>]) }

MatchCalled ==
    \E contract \in ProgramContracts,
       parsed_txs \in UNION { [1..n -> ParsedTxPool] : n \in 0..MaxParsedTxs } :
        matched = [at |-> "called", contract |-> contract,
                   parsed_txs |-> parsed_txs]

\* detect_from_parsed_txs returns; list(types_seen) has the types in some
\* order
DetectFromParsedTxs ==
    /\ matched.at = "called"
    /\ LET contract == matched.contract
           config == contract.detection_config
           discriminators ==
               { config.instruction_discriminators[k] :
                   k \in 1..Len(config.instruction_discriminators) }
           result == detect_from_parsed_txs(contract, matched.parsed_txs)
       IN \E p \in Orders(Len(result.signal_types)) :
            matched' =
              [at |-> "returned", contract |-> contract,
               parsed_txs |-> matched.parsed_txs,
               involves |->
                  [k \in 1..Len(matched.parsed_txs) |->
                      _tx_involves_program(matched.parsed_txs[k],
                                           contract.address, discriminators)],
               result |->
                  [result EXCEPT
                     !.signal_types =
                        [k \in 1..Len(result.signal_types) |->
                            result.signal_types[p[k]]]]]
    /\ UNCHANGED <<mergeVars, scanOnly, score, summary, serviceVars, window,
                   batch, limiter>>

NextProgram == DetectFromParsedTxs

InitProgram ==
    /\ MatchCalled /\ ScanIdle /\ MergeIdle /\ ScoreIdle
    /\ summary = NoSummary /\ scan_cache = NoCache /\ route = NoRoute
    /\ extract = NoExtract
    /\ window = NoWindow /\ batch = NoBatch /\ limiter = NoLimiter

\* one call of detect_from_parsed_txs
SpecProgram == InitProgram /\ [][NextProgram]_vars

\* data starts with the discriminator d
HasPrefix(data, d) ==
    /\ Len(d) <= Len(data)
    /\ \A n \in 1..Len(d) : data[n] = d[n]

\* the discriminators configured for the contract of the call
Configured ==
    { matched.contract.detection_config.instruction_discriminators[k] :
        k \in 1..Len(matched.contract.detection_config
                        .instruction_discriminators) }

\* the predicate as stated, for the program P
Involves(tx, P, discs) ==
    \/ \E k \in 1..Len(tx.instructions) :
         /\ tx.instructions[k].programId = P
         /\ discs # {} =>
              \E d \in discs : HasPrefix(tx.instructions[k].data, d)
    \/ \E k \in 1..Len(tx.instructions) :
         \E n \in 1..Len(tx.instructions[k].innerInstructions) :
            tx.instructions[k].innerInstructions[n] = P
    \/ P \in tx.accountData
    \/ <<"str", P>> \in tx.accountKeys
    \/ <<"dict", P>> \in tx.accountKeys

\* C35: a transaction involves the program iff a top-level instruction of
\* the program passes the discriminators (any data if none is
\* configured), or an inner instruction is of the program, or the program
\* is an account of accountData, or it is among the account keys as a
\* string or as a dict's pubkey; the transaction {} never does
InvolvesPredicate ==
    matched.at = "returned" =>
        \A k \in 1..Len(matched.parsed_txs) :
            /\ matched.involves[k]
                 <=> Involves(matched.parsed_txs[k], matched.contract.address,
                              Configured)
            /\ matched.parsed_txs[k] = EmptyTx => ~matched.involves[k]

\* C35 witness: with discriminators set, a transaction whose only
\* instruction of the program is an inner one matched, and one whose
\* top-level instruction of the program has other data did not
InvolvesWitness ==
    /\ matched.at = "returned"
    /\ Configured # {}
    /\ Len(matched.parsed_txs) = 2
    /\ matched.parsed_txs[1].instructions
         = <<Instruction("Other", <<9>>, <<"Prog1">>)>>
    /\ matched.involves[1]
    /\ matched.parsed_txs[2].instructions
         = <<Instruction("Prog1", <<9, 9>>, <<>>)>>
    /\ ~matched.involves[2]

\* the places of the transactions of the call that matched
Matching == { k \in 1..Len(matched.parsed_txs) : matched.involves[k] }

\* the timestamps of the matching transactions that have one
MatchingTimestamps ==
    { matched.parsed_txs[k].timestamp :
        k \in { m \in Matching : matched.parsed_txs[m].timestamp # 0 } }

\* the type of a transaction, "unknown" if it has none
TypeOfTx(tx) == IF tx.type = Missing THEN "unknown" ELSE tx.type

\* C36: interaction_count is the number of matching transactions,
\* interacted says whether there is one, signal_types holds each type of
\* a matching transaction once, first_seen and last_seen are the least
\* and the greatest timestamp of the matching transactions that have one,
\* None if none has
ProgramIdResult ==
    matched.at = "returned" =>
        LET r == matched.result
        IN /\ r.interaction_count = Cardinality(Matching)
           /\ r.interacted <=> Cardinality(Matching) > 0
           /\ { r.signal_types[k] : k \in 1..Len(r.signal_types) }
                = { TypeOfTx(matched.parsed_txs[k]) : k \in Matching }
           /\ \A j, k \in 1..Len(r.signal_types) :
                r.signal_types[j] = r.signal_types[k] => j = k
           /\ IF MatchingTimestamps = {}
              THEN r.first_seen = None /\ r.last_seen = None
              ELSE /\ r.first_seen # None /\ r.last_seen # None
                   /\ int10(r.first_seen) \in MatchingTimestamps
                   /\ int10(r.last_seen) \in MatchingTimestamps
                   /\ \A t \in MatchingTimestamps :
                        int10(r.first_seen) <= t /\ t <= int10(r.last_seen)
           /\ r.rpc_calls_used = 0

\* C36 witness: two matching transactions of the same type, the later one
\* first
ProgramIdResultWitness ==
    /\ matched.at = "returned"
    /\ Len(matched.parsed_txs) = 2
    /\ Matching = {1, 2}
    /\ matched.parsed_txs[1].type = "SWAP"
    /\ matched.parsed_txs[2].type = "SWAP"
    /\ matched.parsed_txs[1].timestamp = 2000
    /\ matched.parsed_txs[2].timestamp = 1000
    /\ matched.result.signal_types = <<"SWAP">>
    /\ matched.result.interaction_count = 2
    /\ matched.result.first_seen = <<1, 0, 0, 0>>
    /\ matched.result.last_seen = <<2, 0, 0, 0>>

\* ------------------------------------------------------------------------
\* _merge_result followed by _build_tokenless_signal
\* (app/services/scanner.py), as _scan_evm_protocol and scan_wallet use
\* them
\* ------------------------------------------------------------------------

\* the protocol whose signal is built
BuiltProtocol == Protocol("b1", FALSE, <<EventContract, TransferContract>>)

\* the scan variables but tokenless_signals
scanButSignals ==
    <<chain, protocols, window_days, max_rpc_calls_per_scan, pc, elapsed,
      cache, search, from_block, to_block, rpc_used, i, completeness, skipped,
      tokened_signals, rpc_budget, merged, total_rpc, ci, hyb, det, sol, obs>>

\* tokenless_signals.append(_build_tokenless_signal(protocol, result)),
\* result being what the merges left
BuildTokenlessSignal ==
    /\ mpc = "group" /\ gk = 0
    /\ tokenless_signals' =
          Append(tokenless_signals,
                 _build_tokenless_signal(BuiltProtocol, target))
    /\ mpc' = "built"
    /\ UNCHANGED <<sources, target0, target, mk, group, gk, target2,
                   mergeRest, scanButSignals, score, summary, serviceVars,
                   unitVars>>

NextBuild == MergeNext \/ BuildTokenlessSignal

\* the results of a protocol's contracts are merged, then its signal is
\* built
SpecBuild == InitMerge /\ [][NextBuild]_vars

\* a merge step appends the source's signal types to the target's, all of
\* them and in their order, and adds the source's count to the target's
MergeAppends ==
    (mpc = "seq" /\ mk' = mk + 1) =>
        LET s == sources[mk + 1]
        IN /\ target'.signal_types = target.signal_types \o s.signal_types
           /\ Len(target'.signal_types)
                = Len(target.signal_types) + Len(s.signal_types)
           /\ target'.interaction_count
                = target.interaction_count + s.interaction_count

\* the signal built has the types accumulated, as a collection without
\* repetition, and the count accumulated; the result it was built from
\* still has the types as they were appended
BuiltOnce ==
    mpc = "built" =>
        LET signal == tokenless_signals[Len(tokenless_signals)]
        IN /\ signal.signal_types
                = { target.signal_types[k] : k \in 1..Len(target.signal_types) }
           /\ Cardinality(signal.signal_types) <= Len(target.signal_types)
           /\ signal.interaction_count = target.interaction_count
           /\ Len(target.signal_types)
                = Len(target0.signal_types)
                  + SumOf([k \in 1..NumSources |-> Len(sources[k].signal_types)])

\* C37: _merge_result appends the source's signal types to the target's
\* with duplicates and order kept and sums the counts; only the tokenless
\* signal built at the end holds each accumulated type once
DedupAtSignal == []BuiltOnce /\ [][MergeAppends]_vars

\* C37 witness: swap was appended to a target that had it, again and
\* again; the result holds it four times and the signal once
DedupAtSignalWitness ==
    /\ mpc = "built"
    /\ target0.signal_types = <<"swap">>
    /\ target.signal_types = <<"swap", "swap", "supply", "swap", "swap">>
    /\ tokenless_signals[1].signal_types = {"supply", "swap"}

\* ------------------------------------------------------------------------
\* One budget for the queries of a detector
\* ------------------------------------------------------------------------

\* the number of chunks of the window
NumChunks ==
    IF to_block < from_block THEN 0
    ELSE (to_block - from_block) \div max_log_block_range + 1

\* the calls of the running detector are made query after query: a call
\* of a later signature, token or query comes only after the one before
\* it has walked the window down to from_block; there are never more
\* calls than the budget; with a budget of at most the number of chunks
\* every call belongs to the first signature, token or query; and the
\* calls reported are the calls made
SequentialShape ==
    det.mode # "none" =>
        /\ \A j, k \in 1..Len(det.ranges) :
             j < k => det.ranges[j][1] <= det.ranges[k][1]
        /\ \A k \in 1..Len(det.ranges) :
             det.ranges[k][1] > 0 =>
                LET before == RangesOf(det.ranges[k][1] - 1)
                IN /\ Len(before) = NumChunks
                   /\ before[Len(before)][2] = from_block
        /\ Len(det.ranges) <= det.rpc_budget
        /\ det.rpc_budget <= NumChunks =>
             \A k \in 1..Len(det.ranges) : det.ranges[k][1] = 0
        /\ det.result.rpc_calls_used = Len(det.ranges)

\* C38: the queries of a detector use one budget one after the other, so
\* with a budget of at most the number of chunks of the window only the
\* first signature, token or query is ever sent, and the detector returns
SequentialBudgetUse == []SequentialShape /\ <>(pc = "returned")

\* C38 witness: TxToContract returned with a budget of 3 on a window of 3
\* chunks: three topic1 calls, no topic2 call, and the logs found counted
SequentialBudgetWitness ==
    /\ pc = "returned"
    /\ det.mode = "tx_to_contract" /\ det.caller = "harness"
    /\ NumChunks = 3 /\ det.rpc_budget = 3
    /\ Len(det.ranges) = 3
    /\ \A k \in 1..3 : det.ranges[k][1] = 0
    /\ det.ranges[3][2] = from_block
    /\ det.result.interacted

\* a detector that had budget left after the first walk went on to the
\* second token
SecondQueryWitness ==
    /\ pc = "returned"
    /\ det.mode = "transfer_to_contract"
    /\ NumChunks = 3 /\ det.rpc_budget = 4
    /\ Len(RangesOf(0)) = 3 /\ Len(RangesOf(1)) = 1

\* ------------------------------------------------------------------------
\* RateLimitMiddleware (app/middleware/rate_limit.py); time in units of
\* which the window of 60.0 seconds has RateWindow and the sweep interval
\* of 300.0 seconds has CleanupInterval
\* ------------------------------------------------------------------------

\* requests_per_minute of the middleware
requests_per_minute == 2

\* the window of 60.0 seconds
RateWindow == 2

\* _cleanup_interval, 300.0 seconds
CleanupInterval == 4

\* the clock runs from 0 to this
MaxRateClock == 6

\* request.client.host of the requests, Missing for a request without
\* client
ClientHosts == {"10.0.0.1", Missing}

Methods == {"POST", "GET"}

\* no request dispatched yet
NoRequest == [method |-> "none", client_ip |-> "none", status |-> "none"]

\* RateLimitMiddleware(app, requests_per_minute) is constructed at time 0
LimiterBuilt ==
    limiter = [at |-> "running", rpm |-> requests_per_minute,
               hits |-> [ip \in {} |-> <<>>], last_cleanup |-> 0, now |-> 0,
               forwarded |-> [ip \in {"unknown"} \cup (ClientHosts \ {Missing})
                                 |-> <<>>],
               last |-> NoRequest]

limiterRest ==
    <<mergeVars, scanOnly, score, summary, serviceVars, window, batch,
      matched>>

RateExceeded_OffByOne(n, rpm) == n > rpm

\* len(self._hits[client_ip]) >= self._rpm
RateExceeded(n, rpm) == n >= rpm

\* the periodic sweep: the IPs with no hit, or whose last hit is at or
\* before window_start, are deleted
Swept(hits, window_start) ==
    [ip \in { h \in DOMAIN hits :
                ~(hits[h] = <<>> \/ hits[h][Len(hits[h])] <= window_start) }
        |-> hits[ip]]

\* [t for t in hits if t > window_start]
Pruned(ts, window_start) == SelectSeq(ts, LAMBDA t : t > window_start)

\* self._hits[client_ip] of a defaultdict(list)
HitsOf(hits, client_ip) ==
    IF client_ip \in DOMAIN hits THEN hits[client_ip] ELSE <<>>

\* time passes; forwarded lists the arrival times of the POSTs handed to
\* the application that are less than the window old
RateTick ==
    /\ limiter.at = "running"
    /\ limiter.now < MaxRateClock
    /\ limiter' =
         [limiter EXCEPT
            !.now = @ + 1,
            !.forwarded =
               [ip \in DOMAIN @ |->
                   SelectSeq(@[ip],
                             LAMBDA t : t > limiter.now + 1 - RateWindow)]]
    /\ UNCHANGED limiterRest

\* dispatch(request, call_next) of a request that is not a POST
DispatchOther ==
    /\ limiter.at = "running"
    /\ \E method \in Methods \ {"POST"}, host \in ClientHosts :
         limiter' =
           [limiter EXCEPT
              !.last = [method |-> method,
                        client_ip |-> IF host = Missing THEN "unknown"
                                      ELSE host,
                        status |-> "forwarded"]]
    /\ UNCHANGED limiterRest

\* dispatch(request, call_next) of a POST, up to the 429 response or the
\* call of call_next
DispatchPost ==
    /\ limiter.at = "running"
    /\ \E host \in ClientHosts :
         LET client_ip == IF host = Missing THEN "unknown" ELSE host
             now == limiter.now
             window_start == now - RateWindow
             sweep == now - limiter.last_cleanup > CleanupInterval
             hits1 == IF sweep THEN Swept(limiter.hits, window_start)
                      ELSE limiter.hits
             pruned == Pruned(HitsOf(hits1, client_ip), window_start)
             limited == RateExceeded(Len(pruned), limiter.rpm)
         IN limiter' =
              [limiter EXCEPT
                 !.last_cleanup = IF sweep THEN now ELSE @,
                 !.hits = With(hits1, client_ip,
                               IF limited THEN pruned
                               ELSE Append(pruned, now)),
                 !.forwarded[client_ip] =
                    IF limited THEN @ ELSE Append(@, now),
                 !.last = [method |-> "POST", client_ip |-> client_ip,
                           status |-> IF limited THEN "429"
                                      ELSE "forwarded"]]
    /\ UNCHANGED limiterRest

NextLimiter == RateTick \/ DispatchOther \/ DispatchPost

InitLimiter ==
    /\ LimiterBuilt /\ ScanIdle /\ MergeIdle /\ ScoreIdle
    /\ summary = NoSummary /\ scan_cache = NoCache /\ route = NoRoute
    /\ extract = NoExtract
    /\ window = NoWindow /\ batch = NoBatch /\ matched = NoMatched

\* the middleware under any sequence of requests
SpecLimiter == InitLimiter /\ [][NextLimiter]_vars

\* how often t occurs in a list of times
Occurs(ts, t) == Len(SelectSeq(ts, LAMBDA x : x = t))

\* the times less than the window before now
Young == { t \in 0..MaxRateClock : t > limiter.now - RateWindow }

\* the client IPs
ClientIps == DOMAIN limiter.forwarded

\* per client IP, the POSTs handed to the application that arrived less
\* than the window ago are at most requests_per_minute, and each of them,
\* and nothing else that young, is among the hits kept for the IP
RateBounded ==
    limiter.at = "running" =>
        \A ip \in ClientIps :
            /\ Len(SelectSeq(limiter.forwarded[ip], LAMBDA t : t \in Young))
                 <= requests_per_minute
            /\ \A t \in Young :
                 Occurs(HitsOf(limiter.hits, ip), t)
                    = Occurs(limiter.forwarded[ip], t)

\* a request that is not a POST is handed on and changes no hits; a POST
\* answered 429 is not handed on and adds no hit, and the IP had
\* requests_per_minute hits in the window; no request removes a hit that
\* is less than the window old
RateStep ==
    (limiter.at = "running" /\ limiter'.now = limiter.now) =>
        LET r == limiter'.last
        IN /\ r.method = "GET" =>
                /\ r.status = "forwarded"
                /\ limiter'.hits = limiter.hits
                /\ limiter'.forwarded = limiter.forwarded
           /\ r.status = "429" =>
                /\ r.method = "POST"
                /\ limiter'.forwarded = limiter.forwarded
                /\ Len(HitsOf(limiter'.hits, r.client_ip))
                     <= Len(HitsOf(limiter.hits, r.client_ip))
                /\ Len(SelectSeq(limiter.forwarded[r.client_ip],
                                 LAMBDA t : t \in Young))
                     = requests_per_minute
           /\ \A ip \in ClientIps, t \in Young :
                Occurs(HitsOf(limiter'.hits, ip), t)
                   >= Occurs(HitsOf(limiter.hits, ip), t)

\* C39: per client IP at most requests_per_minute POSTs that arrived
\* within the window are handed to the application; a POST answered 429
\* is not recorded; GETs are neither limited nor counted; pruning and the
\* sweep only remove hits that are at least the window old
RateLimit == []RateBounded /\ [][RateStep]_vars

\* C39 witness: after a sweep that dropped the other IP's old hits, an IP
\* with requests_per_minute POSTs in the window got a 429
RateLimitWitness ==
    /\ limiter.at = "running"
    /\ limiter.last = [method |-> "POST", client_ip |-> "10.0.0.1",
                       status |-> "429"]
    /\ limiter.last_cleanup > CleanupInterval
    /\ "unknown" \notin DOMAIN limiter.hits
    /\ Len(limiter.forwarded["10.0.0.1"]) = requests_per_minute
    /\ limiter.hits["10.0.0.1"] = limiter.forwarded["10.0.0.1"]

====
